---- MODULE Spec2Model ----
(***************************************************************************)
(* A model of the knowledge-base ingestion service (service-knowledge).    *)
(*                                                                         *)
(* The module holds several specifications over one set of variables, one  *)
(* per part of the program:                                                *)
(*   SpecCoord     the update coordinator, knowledge.Update                *)
(*   SpecUpsert    the upsert layer of the osv, friends_of_php, gcve tables*)
(*   SpecTx        the transactional batch writers                         *)
(*   SpecBatch     the check-then-act batch writers (epss, cwe, nvd)       *)
(*   SpecPkg       package and version persistence                         *)
(*   SpecJunction  the package_vulnerability junction table                *)
(*   SpecNvdParse  types.GetVulns                                          *)
(*   SpecGcveParse gcve.parseCVERecord                                     *)
(*   SpecCursor    the cursors of nvd.Update and gcve.Update               *)
(*   SpecCursorLive  the same with the steps of nvd.Update weakly fair     *)
(*   SpecLicense   tools.parseLicense                                      *)
(*   SpecFresh     the four-hour freshness check of the package updates    *)
(*   SpecOsv       the cve and cwes of an OSV entry                        *)
(*   SpecNvdPages  the page goroutines of nvd.Update                       *)
(*   SpecNvdBatch  one call of nvd downloadBatch                           *)
(*   SpecNpm       the npm download with its retries                       *)
(*   SpecPool      the worker pools of the js and php runners              *)
(*   SpecFriends   the conversion of a FriendsOfPHP advisory               *)
(*   SpecCron      the cron job of main and its invocations                *)
(*   SpecStream    the batching loops of the OSV and GCVE mirrors          *)
(*   SpecVulnrichment  the two dumps of a GCVE bulk import                 *)
(*   SpecNotice    pgsql.sendPackageUpdateNotification                     *)
(*   SpecPackagist  php.downloadPackagist and the answers of the registry  *)
(*   SpecPackagistLive  the same with its steps weakly fair                *)
(*   SpecRace      two concurrent calls of pgsql.UpdatePackage             *)
(*   SpecNvdIndex  the page count and the start indices of nvd.Update      *)
(*   SpecFollowed  js.UpdatePackage of one npm package as time passes      *)
(*   SpecRejected  one GCVE import over records of every state             *)
(*   SpecNpmRow    latest_version and the Version rows of an npm package   *)
(*   SpecDownloads, SpecDownloadsLive                                      *)
(*                 the goroutines of phase 2 of UpdatePackagesBatch        *)
(* Each specification leaves the variables of the other parts unchanged.   *)
(***************************************************************************)
EXTENDS Integers, Sequences, FiniteSets, TLC

VARIABLES
    \* ---- coordinator (src/src/knowledge.go) ----
    pc,        \* position of knowledge.Update: index of the next mirror, 0 = no run
    active,    \* the mirror that is executing, or "none"
    calls,     \* the mirrors invoked so far in the current run, in call order
    results,   \* mirror -> "none" | "ok" | "err" | "panic" for the current run
    logged,    \* the mirrors whose error the coordinator has logged in this run
    runState,  \* "idle" | "running" | "done" | "panicked"
    runs,      \* number of runs started
    faults,    \* mirror -> the point at which it failed in the current run
    cronJobs,  \* the invocations of the cron job: the mirror each executes
    \* ---- persistence layer (src/src/utilities/pgsql) ----
    osv,          \* table osv: a set of rows [id, key, attr], key = osv_id
    friends_of_php, \* table friends_of_php, key = advisory_id
    gcve,         \* table gcve, key = gcve_id
    nvd,          \* table nvd, key = nvd_id
    licenses,     \* table licenses, key = licenseId
    epss,         \* table epss, key = cve
    cwe,          \* table cwe, key = cwe_id
    lastWrite,    \* the last call of the persistence layer and what it returned
    \* ---- packages and versions (pgsql.UpdatePackage, js and php mirrors) ----
    package,      \* table package: the names of the stored packages
    version,      \* table version: a set of rows [package, version]
    lastUpdate,   \* the last package update and what the registry offered to it
    \* ---- junction table (gcve.processBatch, php_security.fetchBatchAdvisories) ----
    package_vulnerability, \* table package_vulnerability: a set of rows
    lastIngest,   \* the last ingestion batch: whether it brought a link
                  \* again, whether it failed to upsert or look up a
                  \* vulnerability, whether it linked such a vulnerability
                  \* several times and a link that was stored already
    \* ---- record normalisation (types.GetVulns, gcve.parseCVERecord) ----
    nvdResponse,  \* nvd.Vulnerabilities: the CVEs of one decoded NVD page
    vulns,        \* what GetVulns returned for the page
    data,         \* one line of the CVE list, as parseCVERecord decodes it
    item,         \* what parseCVERecord returned for the line
    parseDone,    \* the normalisation has been called
    \* ---- cursors (nvd.Update, gcve.Update, table config) ----
    clock,        \* time.Now(), in days
    nvd_last,     \* config.nvd_last, in days
    gcve_last,    \* config.gcve_last, in days; 0 is the zero time
    nvdRun,       \* the executing invocation of nvd.Update and its locals
    gcveRun,      \* the executing invocation of gcve.Update and its locals
    windows,      \* the windows [since, until] queried since the outermost
                  \* nvd.Update was called
    \* ---- field normalisation (tools.parseLicense, osv.processEcosystem) ----
    pack,         \* the license field of a package, as decoded
    links,        \* the license keys of the links parseLicense returned
    osvItem,      \* an OSV entry as decoded: its aliases and database_specific
    osvResult,    \* the cve and cwes that processEcosystem derived from it
    advisory,     \* an id and a FriendsOfPHP advisory, as php_security holds it
    converted,    \* the OSV item convertFriendsOfPHPToOSV yielded for it
    normDone,     \* the normalisation has been called
    \* ---- freshness of packages (js and php UpdatePackage, UpdatePackagesBatch) ----
    hour,         \* time.Now(), in hours
    packageTime,  \* column time of table package: name -> hours, per stored row
    lastFresh,    \* the last update: its names, which of them had a recent
                  \* row, which were requested from the registry and written
    \* ---- concurrency and retries (nvd.Update, downloadBatch, js and php) ----
    rateLimiter,  \* the token channel of nvd.Update: API key or not, tokens
    pages,        \* the page goroutines of nvd.Update, counted by position
    nvdBatch,     \* one call of downloadBatch: position, locals, what it did
    npm,          \* one call of the npm download: position, retryCount, what it did
    stream,       \* one run of a batching loop over the records of an input
    race,         \* two calls of pgsql.UpdatePackage for one name and language:
                  \* the rows of the name, and where each call is
    dispatch,     \* the pages nvd.Update starts for a number of results
    followed,     \* one npm package under repeated js.UpdatePackage calls
    imported,     \* the records one GCVE import was given
    npmRow,       \* the Package row of one npm package and its Version rows
    downloads,    \* the goroutines of the download phase of UpdatePackagesBatch
    packagist,    \* one call of downloadPackagist with its recursive calls
    notice,       \* one call of sendPackageUpdateNotification: what it was
                  \* given, the SBOM rows it found, what it sent
    pool          \* one run of a js or php runner: its goroutines, counted

coordVars == <<pc, active, calls, results, logged, runState, runs, faults, cronJobs>>

storeVars == <<osv, friends_of_php, gcve, nvd, licenses, epss, cwe, lastWrite>>

pkgVars == <<package, version, lastUpdate>>

junctionVars == <<package_vulnerability, lastIngest>>

parseVars == <<nvdResponse, vulns, data, item, parseDone>>

cursorVars == <<clock, nvd_last, gcve_last, nvdRun, gcveRun, windows>>

normVars == <<pack, links, osvItem, osvResult, advisory, converted, normDone>>

freshVars == <<hour, packageTime, lastFresh>>

poolVars == <<rateLimiter, pages, nvdBatch, npm, pool, stream>>

sideVars ==
    <<notice, packagist, race, dispatch, followed, imported, npmRow,
      downloads>>

\* The variables of the mirrors' runs and of the field normalisation.
runVars == <<cursorVars, normVars, freshVars, poolVars, sideVars>>

\* The variables outside each part.
notCoord == <<storeVars, pkgVars, junctionVars, parseVars, runVars>>

notStore == <<coordVars, pkgVars, junctionVars, parseVars, runVars>>

notPkg == <<coordVars, storeVars, junctionVars, parseVars, runVars>>

notParse == <<coordVars, storeVars, pkgVars, junctionVars, runVars>>

\* The variables of the parts before the mirrors' runs.
baseVars == <<coordVars, storeVars, pkgVars, junctionVars, parseVars>>

notCursor == <<baseVars, normVars, freshVars, poolVars, sideVars>>

notNorm == <<baseVars, cursorVars, freshVars, poolVars, sideVars>>

notFresh ==
    <<coordVars, storeVars, junctionVars, parseVars, cursorVars, normVars,
      poolVars, sideVars, lastUpdate>>

notPool == <<baseVars, cursorVars, normVars, freshVars, sideVars>>

notSide == <<baseVars, cursorVars, normVars, freshVars, poolVars>>

vars == <<baseVars, runVars>>

-----------------------------------------------------------------------------
(* Small helpers.                                                          *)

Range(s) == {s[i] : i \in 1..Len(s)}

IsPrefix(s, t) == Len(s) <= Len(t) /\ \A i \in 1..Len(s) : s[i] = t[i]

-----------------------------------------------------------------------------
(* The persistence layer: tables and SQL statements.                       *)
(*                                                                         *)
(* A table is a set of rows [id, key, attr]: id is the generated primary   *)
(* key, key the natural key of the table (osv_id, gcve_id, ...), attr the  *)
(* value of all the other columns together.                                *)

\* Longest batch handed to a batch writer.
MaxBatchLen == 2

Keys == {"k1", "k2"}

Attrs == {"a1", "a2"}

Items == [key : Keys, attr : Attrs]

Batches == UNION {[1..n -> Items] : n \in 0..MaxBatchLen}

KeysOf(tbl) == {r.key : r \in tbl}

ItemKeys(items) == {items[i].key : i \in 1..Len(items)}

HasDupKeys(items) ==
    \E i, j \in 1..Len(items) : i < j /\ items[i].key = items[j].key

\* The last item of the batch that carries key k.
LastWithKey(items, k) ==
    items[CHOOSE i \in 1..Len(items) :
            /\ items[i].key = k
            /\ \A j \in (i + 1)..Len(items) : items[j].key # k]

\* The rows a statement inserts for the items at the positions idx: each gets
\* a generated id that no row of the table has.
FreshRows(tbl, items, idx) ==
    {[id |-> Cardinality(tbl) + Cardinality({j \in idx : j <= i}),
      key |-> items[i].key,
      attr |-> items[i].attr] : i \in idx}

\* INSERT ... ON CONFLICT (key) DO NOTHING, used by the junction-table writers.
OnConflictDoNothing(tbl, items) ==
    LET first == {i \in 1..Len(items) :
                    /\ items[i].key \notin KeysOf(tbl)
                    /\ \A j \in 1..(i - 1) : items[j].key # items[i].key}
    IN [ok |-> TRUE, tbl |-> tbl \cup FreshRows(tbl, items, first)]

\* INSERT ... ON CONFLICT (key) DO UPDATE SET <every column> = EXCLUDED.<column>:
\* a row whose key exists is overwritten in place and keeps its id, any other
\* row is inserted.  The statement fails when two of its rows carry the same
\* key ("ON CONFLICT DO UPDATE command cannot affect row a second time").
OnConflictDoUpdate(tbl, items) ==
    IF HasDupKeys(items)
    THEN [ok |-> FALSE, tbl |-> tbl]
    ELSE LET new == {i \in 1..Len(items) : items[i].key \notin KeysOf(tbl)}
             kept == {IF r.key \in ItemKeys(items)
                        THEN [r EXCEPT !.attr = LastWithKey(items, r.key).attr]
                        ELSE r : r \in tbl}
         IN [ok |-> TRUE, tbl |-> kept \cup FreshRows(tbl, items, new)]

\* A plain INSERT of the items: every item becomes a new row.  The unique
\* index on the natural key rejects the statement when a key is already
\* stored or occurs twice in the statement.
Insert(tbl, items) ==
    IF HasDupKeys(items) \/ ItemKeys(items) \cap KeysOf(tbl) # {}
    THEN [ok |-> FALSE, tbl |-> tbl]
    ELSE [ok |-> TRUE, tbl |-> tbl \cup FreshRows(tbl, items, 1..Len(items))]

\* The first item of the batch that carries key k.
FirstWithKey(items, k) ==
    items[CHOOSE i \in 1..Len(items) :
            /\ items[i].key = k
            /\ \A j \in 1..(i - 1) : items[j].key # k]

\* UPDATE ... FROM (VALUES ...) AS _data WHERE key = _data.key: every row whose
\* key is in the batch takes the attributes of an item with that key; when the
\* batch repeats the key the database uses one of them (pick: which).
BulkUpdate(tbl, items, pick) ==
    {IF r.key \in ItemKeys(items)
       THEN [r EXCEPT !.attr = IF pick = "first"
                                 THEN FirstWithKey(items, r.key).attr
                                 ELSE LastWithKey(items, r.key).attr]
       ELSE r : r \in tbl}

\* The items of the batch whose key is, or is not, among the stored keys.
Existing(tbl, items) == SelectSeq(items, LAMBDA e : e.key \in KeysOf(tbl))

Missing(tbl, items) == SelectSeq(items, LAMBDA e : e.key \notin KeysOf(tbl))

\* No call of the persistence layer has been made and every table is empty.
StoreIdle ==
    /\ osv = {}
    /\ friends_of_php = {}
    /\ gcve = {}
    /\ nvd = {}
    /\ licenses = {}
    /\ epss = {}
    /\ cwe = {}
    /\ lastWrite = [op |-> "none", items |-> <<>>, fault |-> "none",
                    ok |-> TRUE, commitCalled |-> FALSE, stmtFailed |-> FALSE,
                    panicked |-> FALSE, again |-> FALSE]

-----------------------------------------------------------------------------
(* Packages and versions: strings and the prerelease filter.               *)
(*                                                                         *)
(* A version string is a sequence of one-character strings.                *)

UpperCase == <<"A", "B", "C", "D", "E", "F", "G", "H", "I", "J", "K", "L", "M",
               "N", "O", "P", "Q", "R", "S", "T", "U", "V", "W", "X", "Y", "Z">>

LowerCase == <<"a", "b", "c", "d", "e", "f", "g", "h", "i", "j", "k", "l", "m",
               "n", "o", "p", "q", "r", "s", "t", "u", "v", "w", "x", "y", "z">>

\* strings.ToLower
ToLower(str) ==
    [i \in 1..Len(str) |->
        IF \E n \in 1..Len(UpperCase) : UpperCase[n] = str[i]
        THEN LowerCase[CHOOSE n \in 1..Len(UpperCase) : UpperCase[n] = str[i]]
        ELSE str[i]]

\* strings.Contains
Contains(str, substr) ==
    \E i \in 1..(Len(str) - Len(substr) + 1) :
        SubSeq(str, i, i + Len(substr) - 1) = substr

\* The first twelve entries of previewKeywords.
PlainKeywords ==
    {<<"a", "l", "p", "h", "a">>, <<"b", "e", "t", "a">>, <<"r", "c">>,
     <<"c", "a", "n", "a", "r", "y">>, <<"n", "e", "x", "t">>, <<"d", "e", "v">>,
     <<"e", "x", "p", "e", "r", "i", "m", "e", "n", "t", "a", "l">>,
     <<"p", "r", "e", "v", "i", "e", "w">>, <<"p", "r", "e">>,
     <<"s", "n", "a", "p", "s", "h", "o", "t">>,
     <<"n", "i", "g", "h", "t", "l", "y">>,
     <<"u", "n", "s", "t", "a", "b", "l", "e">>}

\* previewKeywords: the twelve words, then each of them after "-", after "."
\* and before ".".
previewKeywords ==
    PlainKeywords
      \cup {<<"-">> \o k : k \in PlainKeywords}
      \cup {<<".">> \o k : k \in PlainKeywords}
      \cup {k \o <<".">> : k \in PlainKeywords}

isPreviewVersion_CaseSensitive(ver) ==
    \E keyword \in previewKeywords : Contains(ver, keyword)

\* isPreviewVersion, the same function in pgsql and in the js and php mirrors.
isPreviewVersion(ver) ==
    LET versionLower == ToLower(ver) IN
    \E keyword \in previewKeywords : Contains(versionLower, keyword)

\* The version strings a registry answers with.
RegistryVersions ==
    {<<"1", ".", "0", ".", "0">>,
     <<"1", ".", "1", ".", "0">>,
     <<"2", ".", "0", ".", "0", "-", "b", "e", "t", "a", ".", "1">>,
     <<"2", ".", "0", ".", "0", "-", "R", "C", "1">>,
     <<"3", ".", "0", ".", "0", "-", "N", "e", "x", "t">>}

\* Most versions in one answer of a registry.
MaxOffered == 2

Offers == {S \in SUBSET RegistryVersions : Cardinality(S) <= MaxOffered}

\* One package per ecosystem.
JsPackages == {"js-pkg"}

PhpPackages == {"php-pkg"}

\* No package is stored and no update has been made.
PkgIdle ==
    /\ package = {}
    /\ version = {}
    /\ lastUpdate = [op |-> "none", pkg |-> "none", offered |-> {},
                     ok |-> TRUE, fetched |-> FALSE]

-----------------------------------------------------------------------------
(* The junction table package_vulnerability.                               *)
(*                                                                         *)
(* A row is [package_name, package_ecosystem, gcve_id, friends_of_php_id,  *)
(* copy]: the two foreign keys hold the id of a gcve or friends_of_php row *)
(* or 0 for NULL; copy numbers the rows that agree on the other fields.    *)

\* No junction row is stored and no batch has been ingested.
JunctionIdle ==
    /\ package_vulnerability = {}
    /\ lastIngest = [op |-> "none", relinked |-> FALSE, unlinked |-> FALSE,
                     stray |-> FALSE, discarded |-> FALSE]

\* Before a record is handed to the normalisation: no input, no result.
NoData == [valid |-> FALSE, state |-> "", cna |-> <<>>, adp |-> <<>>]

NoItem ==
    [isNil |-> TRUE, err |-> FALSE, state |-> "", affected |-> <<>>,
     affectedFlattened |-> <<>>, adpEnrichments |-> <<>>]

ParseIdle ==
    /\ nvdResponse = <<>>
    /\ vulns = <<>>
    /\ data = NoData
    /\ item = NoItem
    /\ parseDone = FALSE

\* The day of the first reading of the clock.
Today == 300

\* No invocation of nvd.Update or gcve.Update is executing.
NoNvdRun ==
    [pc |-> "idle", read |-> 0, since |-> 0, now |-> 0, restart |-> FALSE,
     pagesFailed |-> FALSE, err |-> FALSE, wrote |-> FALSE]

NoGcveRun ==
    [pc |-> "idle", read |-> 0, now |-> 0, path |-> "none", calls |-> <<>>,
     imported |-> FALSE, err |-> FALSE, wrote |-> FALSE]

CursorIdle ==
    /\ clock = Today
    /\ nvd_last = Today
    /\ gcve_last = Today
    /\ nvdRun = NoNvdRun
    /\ gcveRun = NoGcveRun
    /\ windows = <<>>

\* No license field and no OSV entry has been handed to the normalisation.
NoPack == [kind |-> "nil", str |-> <<>>]

NoOsvItem == [aliases |-> <<>>, database_specific |-> "nil", cwe_ids |-> <<>>]

NoOsvResult == [cve |-> <<>>, cwes |-> <<>>]

NoAdvisory ==
    [id |-> "", Title |-> "", Description |-> "", CVE |-> "", Link |-> "",
     Reference |-> "", Composer |-> "", Branches |-> <<>>]

NoConverted ==
    [OSVId |-> "", Summary |-> "", Details |-> "", Aliases |-> <<>>,
     References |-> <<>>, Affected |-> <<>>]

NormIdle ==
    /\ pack = NoPack
    /\ links = <<>>
    /\ osvItem = NoOsvItem
    /\ osvResult = NoOsvResult
    /\ advisory = NoAdvisory
    /\ converted = NoConverted
    /\ normDone = FALSE

\* The hour of the first reading of the clock by a package update.
StartHour == Today * 24

NoFresh ==
    [op |-> "none", names |-> <<>>, selectFailed |-> FALSE, recent |-> {},
     requested |-> {}, written |-> {}]

FreshIdle ==
    /\ hour = StartHour
    /\ packageTime = [n \in {} |-> 0]
    /\ lastFresh = NoFresh

\* The mirrors' runs and the field normalisation before anything has run.
\* for retries := 0; retries < maxRetries; retries++ (downloadBatch).
maxRetries == 5

NoLimiter == [apiKey |-> FALSE, tokens |-> 0]

NoPages ==
    [pc |-> "idle", n_page |-> 0,
     waiting |-> [r \in 0..(maxRetries - 1) |-> 0],
     fetching |-> [r \in 0..(maxRetries - 1) |-> 0],
     writing |-> 0, finished |-> 0]

NoBatch ==
    [pc |-> "idle", retries |-> 0, taken |-> 0, requests |-> 0,
     slept |-> <<>>, err |-> FALSE]

NoNpm ==
    [pc |-> "idle", pack |-> "", escaped |-> FALSE, retryCount |-> 0,
     requests |-> 0, statuses |-> <<>>, slept |-> <<>>, err |-> "none"]

NoPool ==
    [pc |-> "idle", op |-> "none", items |-> 0, remaining |-> 0, waiting |-> 0,
     executing |-> 0, done |-> 0, failed |-> 0, logged |-> 0]

NoStream ==
    [pc |-> "idle", loop |-> "none", read |-> 0, accepted |-> 0, batch |-> 0,
     handed |-> <<>>, logged |-> 0, err |-> FALSE]

PoolIdle ==
    /\ rateLimiter = NoLimiter
    /\ pages = NoPages
    /\ nvdBatch = NoBatch
    /\ npm = NoNpm
    /\ pool = NoPool
    /\ stream = NoStream

NoNotice ==
    [pc |-> "idle", newVersions |-> <<>>, rows |-> <<>>,
     latestNewVersion |-> <<>>, sent |-> <<>>]

NoPackagist ==
    [pc |-> "idle", packageName |-> "", registry |-> "", calls |-> 0,
     slept |-> 0, err |-> "none"]

NoCall == [pc |-> "idle", found |-> FALSE, id |-> 0, ok |-> TRUE]

NoRace ==
    [unique |-> TRUE, packages |-> 0, versions |-> <<>>,
     calls |-> <<NoCall, NoCall>>]

NoDispatch ==
    [pc |-> "idle", totalResults |-> 0, n_page |-> 0, index |-> <<>>,
     wrote |-> FALSE]

\* No row and no call yet: time and updated mean nothing before stored and
\* succeeded are set.
NoFollowed ==
    [hour |-> StartHour, stored |-> FALSE, time |-> StartHour,
     succeeded |-> FALSE, updated |-> StartHour,
     last |-> "none", again |-> FALSE, selectFailed |-> FALSE]

NoImported ==
    [pc |-> "idle", loop |-> "none", records |-> <<>>, fault |-> "none"]

NoNpmRow ==
    [stored |-> FALSE, latest_version |-> <<>>, versions |-> {},
     offered |-> {}, last |-> "none"]

NoDownloads ==
    [pc |-> "idle", n |-> 0, spawned |-> 0, queued |-> 0, holding |-> 0,
     finished |-> 0, results |-> 0, closer |-> "none", closes |-> 0,
     panicked |-> FALSE, collected |-> 0]

SideIdle ==
    /\ notice = NoNotice
    /\ packagist = NoPackagist
    /\ race = NoRace
    /\ dispatch = NoDispatch
    /\ followed = NoFollowed
    /\ imported = NoImported
    /\ npmRow = NoNpmRow
    /\ downloads = NoDownloads

RunIdle == CursorIdle /\ NormIdle /\ FreshIdle /\ PoolIdle /\ SideIdle

\* The tables, the junction table and the normalisation before anything has run.
BaseIdle == StoreIdle /\ PkgIdle /\ JunctionIdle /\ ParseIdle

\* The state of every part but the coordinator before anything has run.
RestIdle == BaseIdle /\ RunIdle

-----------------------------------------------------------------------------
(* The update coordinator: knowledge.Update.                               *)

\* Number of coordinator runs explored.
MaxRuns == 2

\* The order of the calls in knowledge.Update.
MirrorOrder == <<"licenses", "epss", "osv", "cwe", "nvd", "php_security", "follow">>

Mirrors == Range(MirrorOrder)

\* licenses.Update: a failed download or a failed pgsql.UpdateLicenses is returned.
LicensesOutcome(fault) == IF fault = "none" THEN "ok" ELSE "err"

\* epss.Update: a failed download or a failed pgsql.UpdateEPSS is returned.
EpssOutcome(fault) == IF fault = "none" THEN "ok" ELSE "err"

\* osv.Update: processEcosystem's error is logged inside the loop; nil is returned.
OsvOutcome(fault) == "ok"

\* cwe.Update with pgsql.UpdateCWE: a failed download or a failed SELECT of the
\* existing ids is returned; a failed bulk INSERT or bulk UPDATE panics.
CweOutcome(fault) ==
    CASE fault = "none" -> "ok"
      [] fault \in {"download", "select"} -> "err"
      [] fault \in {"insert", "update"} -> "panic"

\* nvd.Update: getLastNVDChangeNumber panics when the cursor query fails, and
\* indexes configs[0] of an empty result; a failed stats fetch and a failed
\* cursor write are returned.
NvdOutcome(fault) ==
    CASE fault = "none" -> "ok"
      [] fault \in {"cursor_read", "cursor_empty"} -> "panic"
      [] fault \in {"stats", "cursor_write"} -> "err"

\* php_security.Update: updateFriendsOfPHPAdvisories logs each failed batch and
\* returns nil.
PhpSecurityOutcome(fault) == "ok"

\* js.Follow: a failed listing of the javascript packages panics; a failed
\* package update is dropped by the worker.
FollowOutcome(fault) ==
    CASE fault = "list" -> "panic"
      [] OTHER -> "ok"

\* The points at which each mirror can fail (its HTTP fetch, its statements).
MirrorFaults(m) ==
    CASE m = "licenses" -> {"none", "download", "store"}
      [] m = "epss" -> {"none", "download", "store"}
      [] m = "osv" -> {"none", "download", "store"}
      [] m = "cwe" -> {"none", "download", "select", "insert", "update"}
      [] m = "nvd" -> {"none", "cursor_read", "cursor_empty", "stats", "cursor_write"}
      [] m = "php_security" -> {"none", "fetch", "store"}
      [] m = "follow" -> {"none", "list", "package"}

MirrorOutcome(m, fault) ==
    CASE m = "licenses" -> LicensesOutcome(fault)
      [] m = "epss" -> EpssOutcome(fault)
      [] m = "osv" -> OsvOutcome(fault)
      [] m = "cwe" -> CweOutcome(fault)
      [] m = "nvd" -> NvdOutcome(fault)
      [] m = "php_security" -> PhpSecurityOutcome(fault)
      [] m = "follow" -> FollowOutcome(fault)

CoordIdle ==
    /\ pc = 0
    /\ active = "none"
    /\ calls = <<>>
    /\ results = [m \in Mirrors |-> "none"]
    /\ logged = {}
    /\ runState = "idle"
    /\ runs = 0
    /\ faults = [m \in Mirrors |-> "none"]
    /\ cronJobs = <<>>

\* main: the cron job or the CLI action calls knowledge.Update.  A run that
\* panicked has taken the process down; the next run is that of a new process.
StartRun ==
    /\ runState \in {"idle", "done", "panicked"}
    /\ runs < MaxRuns
    /\ runs' = runs + 1
    /\ runState' = "running"
    /\ pc' = 1
    /\ active' = "none"
    /\ calls' = <<>>
    /\ results' = [m \in Mirrors |-> "none"]
    /\ logged' = {}
    /\ faults' = [m \in Mirrors |-> "none"]
    /\ UNCHANGED cronJobs
    /\ UNCHANGED notCoord

\* knowledge.Update calls the next mirror.
Invoke ==
    /\ runState = "running"
    /\ active = "none"
    /\ pc \in 1..Len(MirrorOrder)
    /\ active' = MirrorOrder[pc]
    /\ calls' = Append(calls, MirrorOrder[pc])
    /\ UNCHANGED <<pc, results, logged, runState, runs, faults, cronJobs>>
    /\ UNCHANGED notCoord

\* The mirror returns nil or an error, which Update logs, or it panics; nothing
\* in Update or in main recovers a panic, so it ends the run.
Return ==
    /\ runState = "running"
    /\ active # "none"
    /\ \E fault \in MirrorFaults(active) :
         LET out == MirrorOutcome(active, fault) IN
         /\ results' = [results EXCEPT ![active] = out]
         /\ faults' = [faults EXCEPT ![active] = fault]
         /\ logged' = IF out = "err" THEN logged \cup {active} ELSE logged
         /\ runState' = IF out = "panic" THEN "panicked" ELSE "running"
         /\ pc' = IF out = "panic" THEN pc ELSE pc + 1
    /\ active' = "none"
    /\ UNCHANGED <<calls, runs, cronJobs>>
    /\ UNCHANGED notCoord

\* knowledge.Update returns nil after the last mirror.
FinishRun ==
    /\ runState = "running"
    /\ active = "none"
    /\ pc = Len(MirrorOrder) + 1
    /\ runState' = "done"
    /\ pc' = 0
    /\ UNCHANGED <<active, calls, results, logged, runs, faults, cronJobs>>
    /\ UNCHANGED notCoord

InitCoord == CoordIdle /\ RestIdle

NextCoord ==
    \/ StartRun
    \/ Invoke
    \/ Return
    \/ FinishRun

SpecCoord == InitCoord /\ [][NextCoord]_vars

\* The points at which the read of the cursor row by nvd.Update fails: the
\* query fails, or the config table has no row.
CursorReadFaults == {"cursor_read", "cursor_empty"}

\* C24: when the read of the cursor row fails in the NVD mirror, nvd.Update
\* returns an error to the coordinator, and the run goes on: when it is over,
\* FriendsOfPHP and the package follow have been called.
C24_CursorReadSurfaces ==
    faults["nvd"] \in CursorReadFaults =>
        /\ results["nvd"] = "err"
        /\ "nvd" \in logged
        /\ runState \in {"done", "panicked"} =>
              {"php_security", "follow"} \subseteq Range(calls)

RunOver == runState \in {"done", "panicked"}

\* C1: a failure of any mirror, in whatever way it fails, never prevents a
\* later mirror of the same run from being invoked: every run that has ended
\* has invoked the last mirror, and the coordinator itself completed.
C1_FailureNeverAborts ==
    RunOver => (runState = "done" /\ "follow" \in Range(calls))

\* C2: one run invokes the mirrors in the fixed order, each only after the
\* previous one has returned, and each exactly once per run: the calls made
\* are always a prefix of the order, an executing mirror is the last one
\* called and every earlier one has returned, and a run that has ended has
\* called every mirror exactly once.
C2_FixedOrderExactlyOnce ==
    /\ IsPrefix(calls, MirrorOrder)
    /\ (active # "none" =>
          /\ calls # <<>>
          /\ active = calls[Len(calls)]
          /\ \A i \in 1..(Len(calls) - 1) : results[calls[i]] # "none")
    /\ (RunOver => calls = MirrorOrder)

-----------------------------------------------------------------------------
(* The upsert layer of the osv, friends_of_php and gcve tables.            *)

\* What a call leaves in lastWrite: the function, its argument, the injected
\* failure, whether it returned nil, whether it called Commit, whether one of
\* its statements failed, whether it panicked, and whether it repeats the call before it (the same
\* function on the same argument, both returning nil).
Written(op, items, fault, res) ==
    [op |-> op, items |-> items, fault |-> fault, ok |-> res.ok,
     commitCalled |-> res.commitCalled, stmtFailed |-> res.stmtFailed,
     panicked |-> "panicked" \in DOMAIN res /\ res.panicked,
     again |-> /\ lastWrite.op = op
               /\ lastWrite.items = items
               /\ lastWrite.ok
               /\ res.ok]

UpsertOne_DoNothing(tbl, e, fault) ==
    IF fault = "exec"
    THEN [ok |-> FALSE, tbl |-> tbl, commitCalled |-> FALSE, stmtFailed |-> TRUE]
    ELSE [ok |-> TRUE, tbl |-> OnConflictDoNothing(tbl, <<e>>).tbl,
          commitCalled |-> FALSE, stmtFailed |-> FALSE]

\* pgsql.UpdateOsv and pgsql.UpdateFriendsOfPHP: one INSERT ... ON CONFLICT
\* DO UPDATE outside any transaction; its error is returned.
UpsertOne(tbl, e, fault) ==
    IF fault = "exec"
    THEN [ok |-> FALSE, tbl |-> tbl, commitCalled |-> FALSE, stmtFailed |-> TRUE]
    ELSE [ok |-> TRUE, tbl |-> OnConflictDoUpdate(tbl, <<e>>).tbl,
          commitCalled |-> FALSE, stmtFailed |-> FALSE]

\* pgsql.deduplicateGcveItems: an item whose key was seen overwrites the item
\* at the position of the first occurrence of that key.
deduplicateGcveItems(items) ==
    LET RECURSIVE Loop(_, _)
        Loop(i, result) ==
            IF i > Len(items) THEN result
            ELSE IF \E idx \in 1..Len(result) : result[idx].key = items[i].key
            THEN Loop(i + 1,
                      [result EXCEPT
                         ![CHOOSE idx \in 1..Len(result) :
                             result[idx].key = items[i].key] = items[i]])
            ELSE Loop(i + 1, Append(result, items[i]))
    IN Loop(1, <<>>)

TxUpsert_Silent(tbl, items, fault) ==
    [ok |-> TRUE,
     tbl |-> IF fault = "none" THEN OnConflictDoUpdate(tbl, items).tbl ELSE tbl,
     commitCalled |-> TRUE, stmtFailed |-> FALSE]

\* The body shared by the batch upserts: nothing to do for an empty batch;
\* BeginTx, one INSERT ... ON CONFLICT DO UPDATE of the whole batch, Commit;
\* the deferred tx.Rollback() undoes the work on every error return.
TxUpsert(tbl, items, fault) ==
    LET st == OnConflictDoUpdate(tbl, items) IN
    CASE Len(items) = 0 ->
           [ok |-> TRUE, tbl |-> tbl, commitCalled |-> FALSE, stmtFailed |-> FALSE]
      [] Len(items) > 0 /\ fault = "begin" ->
           [ok |-> FALSE, tbl |-> tbl, commitCalled |-> FALSE, stmtFailed |-> FALSE]
      [] Len(items) > 0 /\ fault # "begin" /\ (fault = "exec" \/ ~st.ok) ->
           [ok |-> FALSE, tbl |-> tbl, commitCalled |-> FALSE, stmtFailed |-> TRUE]
      [] Len(items) > 0 /\ fault = "commit" /\ st.ok ->
           [ok |-> FALSE, tbl |-> tbl, commitCalled |-> TRUE, stmtFailed |-> FALSE]
      [] OTHER ->
           [ok |-> TRUE, tbl |-> st.tbl, commitCalled |-> TRUE, stmtFailed |-> FALSE]

\* The functions of the persistence layer by the table they read and write.
\* No function touches a second table, so calls on different tables commute;
\* a behaviour keeps to the table of its first call.
WritersOf(t) ==
    CASE t = "osv" -> {"UpdateOsv", "BatchUpdateOsv"}
      [] t = "friends_of_php" -> {"UpdateFriendsOfPHP", "BatchUpdateFriendsOfPHP"}
      [] t = "gcve" -> {"BatchUpdateGcve"}
      [] t = "nvd" -> {"UpdateNvd"}
      [] t = "licenses" -> {"UpdateLicenses"}
      [] t = "epss" -> {"UpdateEPSS"}
      [] t = "cwe" -> {"UpdateCWE"}

Working(t) == lastWrite.op \in {"none"} \cup WritersOf(t)

StmtFaults == {"none", "exec"}

TxFaults == {"none", "begin", "exec", "commit"}

UpdateOsv ==
    /\ Working("osv")
    /\ \E e \in Items, fault \in StmtFaults :
         LET res == UpsertOne(osv, e, fault) IN
         /\ osv' = res.tbl
         /\ lastWrite' = Written("UpdateOsv", <<e>>, fault, res)
    /\ UNCHANGED <<friends_of_php, gcve, nvd, licenses, epss, cwe>>
    /\ UNCHANGED notStore

UpdateFriendsOfPHP ==
    /\ Working("friends_of_php")
    /\ \E e \in Items, fault \in StmtFaults :
         LET res == UpsertOne(friends_of_php, e, fault) IN
         /\ friends_of_php' = res.tbl
         /\ lastWrite' = Written("UpdateFriendsOfPHP", <<e>>, fault, res)
    /\ UNCHANGED <<osv, gcve, nvd, licenses, epss, cwe>>
    /\ UNCHANGED notStore

BatchUpdateOsv ==
    /\ Working("osv")
    /\ \E items \in Batches, fault \in TxFaults :
         LET res == TxUpsert(osv, items, fault) IN
         /\ osv' = res.tbl
         /\ lastWrite' = Written("BatchUpdateOsv", items, fault, res)
    /\ UNCHANGED <<friends_of_php, gcve, nvd, licenses, epss, cwe>>
    /\ UNCHANGED notStore

BatchUpdateFriendsOfPHP ==
    /\ Working("friends_of_php")
    /\ \E items \in Batches, fault \in TxFaults :
         LET res == TxUpsert(friends_of_php, items, fault) IN
         /\ friends_of_php' = res.tbl
         /\ lastWrite' = Written("BatchUpdateFriendsOfPHP", items, fault, res)
    /\ UNCHANGED <<osv, gcve, nvd, licenses, epss, cwe>>
    /\ UNCHANGED notStore

BatchUpdateGcve ==
    /\ Working("gcve")
    /\ \E items \in Batches, fault \in TxFaults :
         LET res == TxUpsert(gcve, deduplicateGcveItems(items), fault) IN
         /\ gcve' = res.tbl
         /\ lastWrite' = Written("BatchUpdateGcve", items, fault, res)
    /\ UNCHANGED <<osv, friends_of_php, nvd, licenses, epss, cwe>>
    /\ UNCHANGED notStore

InitUpsert == CoordIdle /\ RestIdle

NextUpsert ==
    \/ UpdateOsv
    \/ UpdateFriendsOfPHP
    \/ BatchUpdateOsv
    \/ BatchUpdateFriendsOfPHP
    \/ BatchUpdateGcve

SpecUpsert == InitUpsert /\ [][NextUpsert]_vars

\* The call just made upserted the single entity of the call before it again,
\* through the function op, and took the table from old to new: the table is
\* unchanged and holds exactly one row with the entity's key, carrying the
\* entity's attributes.
SecondUpsertIsNoOp(op, old, new) ==
    (lastWrite'.op = op /\ lastWrite'.again /\ Len(lastWrite'.items) = 1) =>
        LET e == lastWrite'.items[1] IN
        /\ new = old
        /\ Cardinality({r \in new : r.key = e.key}) = 1
        /\ \A r \in new : r.key = e.key => r.attr = e.attr

\* C3: upserting the same entity twice in succession, through UpdateOsv,
\* UpdateFriendsOfPHP or BatchUpdateGcve, leaves the same persisted state as
\* upserting it once: the second call changes nothing, and the table holds
\* exactly one row with the entity's key carrying the entity's attributes.
C3_UpsertIdempotent ==
    [][/\ SecondUpsertIsNoOp("UpdateOsv", osv, osv')
       /\ SecondUpsertIsNoOp("UpdateFriendsOfPHP", friends_of_php, friends_of_php')
       /\ SecondUpsertIsNoOp("BatchUpdateGcve", gcve, gcve')]_vars

\* An entity whose key was already stored with other attributes, next to a row
\* of another key, has been upserted twice in succession by UpdateOsv.
C3_Witness ==
    /\ lastWrite.op = "UpdateOsv"
    /\ lastWrite.again
    /\ Cardinality(osv) = 2
    /\ \E r \in osv : r.key = lastWrite.items[1].key /\ r.id = 1

BatchTable(op) ==
    CASE op = "BatchUpdateGcve" -> gcve
      [] op = "BatchUpdateOsv" -> osv
      [] op = "BatchUpdateFriendsOfPHP" -> friends_of_php

\* C4: a batch upsert through BatchUpdateGcve, BatchUpdateOsv or
\* BatchUpdateFriendsOfPHP whose batch repeats a natural key, and which meets
\* no failure of the database, succeeds and persists for each key of the batch
\* exactly one row, carrying the attributes of the last item with that key.
C4_BatchKeepsLast ==
    (/\ lastWrite.op \in {"BatchUpdateGcve", "BatchUpdateOsv", "BatchUpdateFriendsOfPHP"}
     /\ lastWrite.fault = "none") =>
        /\ lastWrite.ok
        /\ \A k \in ItemKeys(lastWrite.items) :
             /\ Cardinality({r \in BatchTable(lastWrite.op) : r.key = k}) = 1
             /\ \A r \in BatchTable(lastWrite.op) :
                  r.key = k => r.attr = LastWithKey(lastWrite.items, k).attr

-----------------------------------------------------------------------------
(* The transactional writers of nvd and licenses, and the check-then-act   *)
(* writers of epss and cwe.                                                *)

\* pgsql.UpdateNvd: Begin; the deferred function commits unless the function's
\* own err is set; one existence query per item, whose err is a new variable
\* of the loop body; one INSERT of the new items and one UPDATE ... WherePK of
\* the others, whose errors are assigned to the function's err.  The items come
\* from the feed without a primary key, so the UPDATE matches no stored row.
\* The result of Commit is dropped.
UpdateNvdResult(tbl, items, fault) ==
    LET newItems == Missing(tbl, items)
        existingItems == Existing(tbl, items)
        ins == Insert(tbl, newItems)
    IN
    CASE fault = "begin" ->
           [ok |-> FALSE, tbl |-> tbl, commitCalled |-> FALSE, stmtFailed |-> FALSE]
      [] fault = "exists" /\ Len(items) > 0 ->
           [ok |-> FALSE, tbl |-> tbl, commitCalled |-> TRUE, stmtFailed |-> TRUE]
      [] fault # "begin" /\ ~(fault = "exists" /\ Len(items) > 0)
           /\ Len(newItems) > 0 /\ (fault = "insert" \/ ~ins.ok) ->
           [ok |-> FALSE, tbl |-> tbl, commitCalled |-> FALSE, stmtFailed |-> TRUE]
      [] fault = "update" /\ Len(existingItems) > 0
           /\ (Len(newItems) = 0 \/ ins.ok) ->
           [ok |-> FALSE, tbl |-> tbl, commitCalled |-> FALSE, stmtFailed |-> TRUE]
      [] fault = "commit" /\ (Len(newItems) = 0 \/ ins.ok) ->
           [ok |-> TRUE, tbl |-> tbl, commitCalled |-> TRUE, stmtFailed |-> FALSE]
      [] OTHER ->
           [ok |-> TRUE, tbl |-> IF Len(newItems) > 0 THEN ins.tbl ELSE tbl,
            commitCalled |-> TRUE, stmtFailed |-> FALSE]

\* pgsql.UpdateLicenses: Begin; the same deferred function; per license one
\* existence query, then an UPDATE or an INSERT of that license.  Every err
\* after Begin is the variable of the loop body, so the function's own err
\* stays nil and the deferred function calls Commit on every return.  The
\* statement for the item at position at fails (at = 0: none does); a failure
\* the server raised has aborted the transaction and Commit then rolls it
\* back, a failure raised before the statement reached the server has not.
UpdateLicensesResult(tbl, items, fault, at) ==
    LET RECURSIVE Loop(_, _)
        Loop(t, i) ==
            IF i > Len(items) \/ (at > 0 /\ i >= at) THEN t
            ELSE IF items[i].key \in KeysOf(t)
            THEN Loop(BulkUpdate(t, <<items[i]>>, "last"), i + 1)
            ELSE Loop(Insert(t, <<items[i]>>).tbl, i + 1)
    IN
    CASE fault = "begin" ->
           [ok |-> FALSE, tbl |-> tbl, commitCalled |-> FALSE, stmtFailed |-> FALSE]
      [] fault = "stmt_aborted" ->
           [ok |-> FALSE, tbl |-> tbl, commitCalled |-> TRUE, stmtFailed |-> TRUE]
      [] fault = "stmt_usable" ->
           [ok |-> FALSE, tbl |-> Loop(tbl, 1), commitCalled |-> TRUE, stmtFailed |-> TRUE]
      [] fault = "commit" ->
           [ok |-> TRUE, tbl |-> tbl, commitCalled |-> TRUE, stmtFailed |-> FALSE]
      [] OTHER ->
           [ok |-> TRUE, tbl |-> Loop(tbl, 1), commitCalled |-> TRUE, stmtFailed |-> FALSE]

UpdateEPSSResult_UpdateOnly(tbl, items, fault, pick) ==
    IF fault # "none"
    THEN [ok |-> FALSE, tbl |-> tbl, commitCalled |-> FALSE, stmtFailed |-> TRUE]
    ELSE [ok |-> TRUE, tbl |-> BulkUpdate(tbl, items, pick),
          commitCalled |-> FALSE, stmtFailed |-> FALSE]

\* pgsql.UpdateEPSS: one SELECT of the stored cve values, the batch split into
\* toInsert and toUpdate, one bulk INSERT, one bulk UPDATE, outside any
\* transaction; every error is returned, and an INSERT that went through stays
\* when the UPDATE fails.
UpdateEPSSResult(tbl, items, fault, pick) ==
    LET toInsert == Missing(tbl, items)
        toUpdate == Existing(tbl, items)
        ins == Insert(tbl, toInsert)
        inserted == IF Len(toInsert) > 0 THEN ins.tbl ELSE tbl
    IN
    CASE fault = "select" ->
           [ok |-> FALSE, tbl |-> tbl, commitCalled |-> FALSE, stmtFailed |-> TRUE]
      [] fault # "select" /\ Len(toInsert) > 0 /\ (fault = "insert" \/ ~ins.ok) ->
           [ok |-> FALSE, tbl |-> tbl, commitCalled |-> FALSE, stmtFailed |-> TRUE]
      [] fault = "update" /\ Len(toUpdate) > 0 /\ (Len(toInsert) = 0 \/ ins.ok) ->
           [ok |-> FALSE, tbl |-> inserted, commitCalled |-> FALSE, stmtFailed |-> TRUE]
      [] OTHER ->
           [ok |-> TRUE, tbl |-> BulkUpdate(inserted, toUpdate, pick),
            commitCalled |-> FALSE, stmtFailed |-> FALSE]

\* pgsql.UpdateCWE: as UpdateEPSS, but a failed bulk INSERT or bulk UPDATE
\* panics instead of returning the error.
UpdateCWEResult(tbl, items, fault, pick) ==
    LET res == UpdateEPSSResult(tbl, items, fault, pick) IN
    [ok |-> res.ok, tbl |-> res.tbl, commitCalled |-> FALSE,
     stmtFailed |-> res.stmtFailed,
     panicked |-> ~res.ok /\ fault # "select"]

NvdFaults == {"none", "begin", "exists", "insert", "update", "commit"}

LicensesFaults == {"none", "begin", "stmt_aborted", "stmt_usable", "commit"}

CheckThenActFaults == {"none", "select", "insert", "update"}

UpdateNvd ==
    /\ Working("nvd")
    /\ \E items \in Batches, fault \in NvdFaults :
         LET res == UpdateNvdResult(nvd, items, fault) IN
         /\ nvd' = res.tbl
         /\ lastWrite' = Written("UpdateNvd", items, fault, res)
    /\ UNCHANGED <<osv, friends_of_php, gcve, licenses, epss, cwe>>
    /\ UNCHANGED notStore

UpdateLicenses ==
    /\ Working("licenses")
    /\ \E items \in Batches, fault \in LicensesFaults :
         \E at \in 0..Len(items) :
           /\ (at > 0) <=> (fault \in {"stmt_aborted", "stmt_usable"})
           /\ LET res == UpdateLicensesResult(licenses, items, fault, at) IN
              /\ licenses' = res.tbl
              /\ lastWrite' = Written("UpdateLicenses", items, fault, res)
    /\ UNCHANGED <<osv, friends_of_php, gcve, nvd, epss, cwe>>
    /\ UNCHANGED notStore

UpdateEPSS ==
    /\ Working("epss")
    /\ \E items \in Batches, fault \in CheckThenActFaults, pick \in {"first", "last"} :
         LET res == UpdateEPSSResult(epss, items, fault, pick) IN
         /\ epss' = res.tbl
         /\ lastWrite' = Written("UpdateEPSS", items, fault, res)
    /\ UNCHANGED <<osv, friends_of_php, gcve, nvd, licenses, cwe>>
    /\ UNCHANGED notStore

UpdateCWE ==
    /\ Working("cwe")
    /\ \E items \in Batches, fault \in CheckThenActFaults, pick \in {"first", "last"} :
         LET res == UpdateCWEResult(cwe, items, fault, pick) IN
         /\ cwe' = res.tbl
         /\ lastWrite' = Written("UpdateCWE", items, fault, res)
    /\ UNCHANGED <<osv, friends_of_php, gcve, nvd, licenses, epss>>
    /\ UNCHANGED notStore

InitTx == CoordIdle /\ RestIdle

NextTx ==
    \/ BatchUpdateGcve
    \/ BatchUpdateOsv
    \/ UpdateNvd
    \/ UpdateLicenses

SpecTx == InitTx /\ [][NextTx]_vars

\* C5: when a statement of a transactional batch write (BatchUpdateGcve,
\* BatchUpdateOsv, UpdateNvd, UpdateLicenses) fails, the call returns an
\* error, Commit is not called, and none of the batch is visible: the tables
\* are as they were before the call.
C5_FailsAtomically ==
    [][(/\ lastWrite'.op \in {"BatchUpdateGcve", "BatchUpdateOsv",
                              "UpdateNvd", "UpdateLicenses"}
        /\ lastWrite'.stmtFailed) =>
          /\ ~lastWrite'.ok
          /\ ~lastWrite'.commitCalled
          /\ <<gcve, osv, nvd, licenses>>' = <<gcve, osv, nvd, licenses>>]_vars

InitBatch == CoordIdle /\ RestIdle

NextBatch ==
    \/ UpdateEPSS
    \/ UpdateCWE
    \/ UpdateNvd

SpecBatch == InitBatch /\ [][NextBatch]_vars

CheckThenActTable(op) ==
    CASE op = "UpdateEPSS" -> epss
      [] op = "UpdateCWE" -> cwe
      [] op = "UpdateNvd" -> nvd

\* C6: after a successful batch write by UpdateEPSS, UpdateCWE or UpdateNvd,
\* whatever the batch (keys already stored, keys repeated within the batch),
\* every natural key of the table is carried by exactly one row, and, when
\* the database raised no failure, every key of the batch is among them.
C6_OneRowPerKey ==
    (lastWrite.op \in {"UpdateEPSS", "UpdateCWE", "UpdateNvd"} /\ lastWrite.ok) =>
        LET tbl == CheckThenActTable(lastWrite.op) IN
        /\ \A k \in KeysOf(tbl) : Cardinality({r \in tbl : r.key = k}) = 1
        /\ (lastWrite.fault = "none" =>
              \A k \in ItemKeys(lastWrite.items) :
                 Cardinality({r \in tbl : r.key = k}) = 1)

\* UpdateEPSS has returned nil for a batch that carries twice, with different
\* attributes, a key which an earlier call had stored, and a second call it
\* followed had stored the other key.
C6_Witness ==
    /\ lastWrite.op = "UpdateEPSS"
    /\ lastWrite.ok
    /\ lastWrite.fault = "none"
    /\ Len(lastWrite.items) = 2
    /\ lastWrite.items[1].key = lastWrite.items[2].key
    /\ lastWrite.items[1].attr # lastWrite.items[2].attr
    /\ \E r \in epss : r.key = lastWrite.items[1].key /\ r.id = 1
    /\ Cardinality(epss) = 2

-----------------------------------------------------------------------------
(* Package and version persistence.                                        *)

\* isPreviewVersion of every version string a registry answers with.
Preview == [v \in RegistryVersions |-> isPreviewVersion(v)]

\* The versions of an answer that the loops over pack.Versions do not skip.
StableOf(offered) == {v \in offered : ~Preview[v]}

VersionRows(name, vers) == {[package |-> name, version |-> v] : v \in vers}

\* pgsql.UpdatePackage: the package is inserted or updated; the versions of
\* pack are walked, a preview version is skipped, any other is inserted when
\* the package does not have it and updated when it does.  Nothing is in a
\* transaction: a statement that fails ends the call with what the earlier
\* statements wrote, done being the versions written before a failed one.
pgsqlUpdatePackage(pkgs, vers, name, offered, fault, done) ==
    CASE fault = "package" ->
           [ok |-> FALSE, package |-> pkgs, version |-> vers]
      [] fault = "select" ->
           [ok |-> FALSE, package |-> pkgs \cup {name}, version |-> vers]
      [] fault = "version" ->
           [ok |-> FALSE, package |-> pkgs \cup {name},
            version |-> vers \cup VersionRows(name, done)]
      [] OTHER ->
           [ok |-> TRUE, package |-> pkgs \cup {name},
            version |-> vers \cup VersionRows(name, StableOf(offered))]

\* UpdatePackagesBatch of the js and of the php mirror, for a batch of one
\* name: a failed download is logged and the package left out; the packages
\* and, but for the preview versions, their versions are upserted in one
\* transaction, which any failed statement rolls back.
batchUpdatePackages(pkgs, vers, name, offered, fault) ==
    CASE fault = "download" ->
           [ok |-> TRUE, package |-> pkgs, version |-> vers]
      [] fault = "tx" ->
           [ok |-> FALSE, package |-> pkgs, version |-> vers]
      [] OTHER ->
           [ok |-> TRUE, package |-> pkgs \cup {name},
            version |-> vers \cup VersionRows(name, StableOf(offered))]

\* js.UpdatePackage and php.UpdatePackage: a stored package updated within the
\* last four hours is skipped (recent); otherwise the registry is asked and
\* its answer handed to pgsql.UpdatePackage.
UpdatePackage ==
    /\ \E name \in JsPackages \cup PhpPackages, offered \in Offers,
          fault \in {"none", "recent", "download", "package", "select", "version"} :
         \E done \in IF fault = "version"
                       THEN (SUBSET StableOf(offered)) \ {StableOf(offered)}
                       ELSE {{}} :
           /\ fault = "recent" => name \in package
           /\ IF fault \in {"recent", "download"}
              THEN /\ UNCHANGED <<package, version>>
                   /\ lastUpdate' = [op |-> "UpdatePackage", pkg |-> name,
                                     offered |-> {}, ok |-> fault = "recent",
                                     fetched |-> FALSE]
              ELSE LET res == pgsqlUpdatePackage(package, version, name,
                                                 offered, fault, done) IN
                   /\ package' = res.package
                   /\ version' = res.version
                   /\ lastUpdate' = [op |-> "UpdatePackage", pkg |-> name,
                                     offered |-> offered, ok |-> res.ok,
                                     fetched |-> TRUE]
    /\ UNCHANGED notPkg

\* What UpdatePackagesBatch of either mirror does for the batch <<name>>.
UpdateBatchOf(op, name) ==
    \E offered \in Offers, fault \in {"none", "recent", "download", "tx"} :
       /\ fault = "recent" => name \in package
       /\ IF fault = "recent"
          THEN /\ UNCHANGED <<package, version>>
               /\ lastUpdate' = [op |-> op, pkg |-> name, offered |-> {},
                                 ok |-> TRUE, fetched |-> FALSE]
          ELSE LET res == batchUpdatePackages(package, version, name,
                                              offered, fault) IN
               /\ package' = res.package
               /\ version' = res.version
               /\ lastUpdate' = [op |-> op, pkg |-> name,
                                 offered |-> IF fault = "download" THEN {} ELSE offered,
                                 ok |-> res.ok, fetched |-> fault # "download"]

jsUpdatePackagesBatch ==
    /\ \E name \in JsPackages : UpdateBatchOf("js.UpdatePackagesBatch", name)
    /\ UNCHANGED notPkg

phpUpdatePackagesBatch ==
    /\ \E name \in PhpPackages : UpdateBatchOf("php.UpdatePackagesBatch", name)
    /\ UNCHANGED notPkg

InitPkg == CoordIdle /\ RestIdle

NextPkg ==
    \/ UpdatePackage
    \/ jsUpdatePackagesBatch
    \/ phpUpdatePackagesBatch

SpecPkg == InitPkg /\ [][NextPkg]_vars

\* The twelve substrings that mark a prerelease version.
PrereleaseWords ==
    {<<"a", "l", "p", "h", "a">>, <<"b", "e", "t", "a">>, <<"r", "c">>,
     <<"c", "a", "n", "a", "r", "y">>, <<"n", "e", "x", "t">>, <<"d", "e", "v">>,
     <<"e", "x", "p", "e", "r", "i", "m", "e", "n", "t", "a", "l">>,
     <<"p", "r", "e", "v", "i", "e", "w">>, <<"p", "r", "e">>,
     <<"s", "n", "a", "p", "s", "h", "o", "t">>,
     <<"n", "i", "g", "h", "t", "l", "y">>,
     <<"u", "n", "s", "t", "a", "b", "l", "e">>}

\* The version string has, at some position and in whatever case, one of the
\* twelve substrings.
IsPrerelease(ver) ==
    \E w \in PrereleaseWords :
       \E i \in 1..Len(ver) :
          /\ i + Len(w) - 1 <= Len(ver)
          /\ \A j \in 1..Len(w) : ToLower(<<ver[i + j - 1]>>) = <<w[j]>>

\* C7: after any sequence of package updates no version row has a version
\* string that contains, in whatever case, one of the twelve prerelease
\* substrings; and an update that fetched the registry's answer and returned
\* nil has left a row for every other version of that answer.
C7_VersionFiltering ==
    /\ \A r \in version : ~IsPrerelease(r.version)
    /\ (lastUpdate.ok /\ lastUpdate.fetched =>
          \A v \in lastUpdate.offered :
             ~IsPrerelease(v) =>
                [package |-> lastUpdate.pkg, version |-> v] \in version)

\* The js batch update has returned nil for an answer that offers a stable
\* version next to a prerelease version written in upper case.
C7_Witness ==
    /\ lastUpdate.op = "js.UpdatePackagesBatch"
    /\ lastUpdate.ok
    /\ lastUpdate.fetched
    /\ <<"2", ".", "0", ".", "0", "-", "R", "C", "1">> \in lastUpdate.offered
    /\ <<"1", ".", "0", ".", "0">> \in lastUpdate.offered
    /\ [package |-> "js-pkg", version |-> <<"1", ".", "0", ".", "0">>] \in version

-----------------------------------------------------------------------------
(* Junction rows of the GCVE and FriendsOfPHP mirrors.                     *)

\* The affected products of the CNA container of a GCVE record, by the
\* content of the record: a record of content "a1" names the product Lib
\* twice, in two spellings, and once an empty product; one of content "a2"
\* names the wildcard and the product Core.
CnaProducts(attr) ==
    IF attr = "a1"
    THEN <<(<<"L", "i", "b">>), (<<"l", "i", "b">>), (<<>>)>>
    ELSE <<(<<"*">>), (<<"C", "o", "r", "e">>)>>

\* The affected products of the ADP containers of the record, in order.
AdpProducts(attr) ==
    IF attr = "a1"
    THEN <<(<<"L", "I", "B">>)>>
    ELSE <<(<<"l", "i", "b">>)>>

\* The products of a record in the order in which extractPackageVulnerabilities
\* walks them, CNA before ADP, and their strings.ToLower.
Products == [a \in Attrs |-> CnaProducts(a) \o AdpProducts(a)]

LowerProducts ==
    [a \in Attrs |-> [j \in 1..Len(Products[a]) |-> ToLower(Products[a][j])]]

\* pgsql.GetGcveUUIDsByGcveIds and pgsql.GetFriendsOfPhpUUIDsByAdvisoryIds: the
\* id of the stored row of each requested key that is stored.
UUIDsByKeys(tbl, keys) ==
    [k \in keys \cap KeysOf(tbl) |-> (CHOOSE r \in tbl : r.key = k).id]

\* gcve.extractPackageVulnerabilities: for each item with a UUID, one row per
\* product of its CNA and then of its ADP containers, lowercased, leaving out
\* the empty product, the wildcard and what the seen map holds already.
extractPackageVulnerabilities(gcveItems, gcveIdToUUID) ==
    LET products(i) == Products[gcveItems[i].attr]
        lower(i) == LowerProducts[gcveItems[i].attr]
        RECURSIVE Walk(_, _, _, _)
        Walk(i, j, seen, pkgVulns) ==
            IF i > Len(gcveItems) THEN pkgVulns
            ELSE IF gcveItems[i].key \notin DOMAIN gcveIdToUUID \/ j > Len(products(i))
            THEN Walk(i + 1, 1, seen, pkgVulns)
            ELSE LET product == products(i)[j]
                     key == <<lower(i)[j], gcveItems[i].key>>
                 IN IF product = <<>> \/ product = <<"*">> \/ key \in seen
                    THEN Walk(i, j + 1, seen, pkgVulns)
                    ELSE Walk(i, j + 1, seen \cup {key},
                              Append(pkgVulns,
                                     [package_name |-> lower(i)[j],
                                      package_ecosystem |-> "gcve",
                                      gcve_id |-> gcveIdToUUID[gcveItems[i].key],
                                      friends_of_php_id |-> 0]))
    IN Walk(1, 1, {}, <<>>)

\* php_security.extractPackageVulnerabilitiesFromFriendsOfPhp: one row per
\* advisory info with a UUID, leaving out what the seen map holds already.
extractPackageVulnerabilitiesFromFriendsOfPhp(advisoryInfos, advisoryIdToUUID) ==
    LET RECURSIVE Walk(_, _, _)
        Walk(i, seen, pkgVulns) ==
            IF i > Len(advisoryInfos) THEN pkgVulns
            ELSE LET info == advisoryInfos[i]
                     key == <<info.packageName, info.key>>
                 IN IF info.key \notin DOMAIN advisoryIdToUUID \/ key \in seen
                    THEN Walk(i + 1, seen, pkgVulns)
                    ELSE Walk(i + 1, seen \cup {key},
                              Append(pkgVulns,
                                     [package_name |-> info.packageName,
                                      package_ecosystem |-> "packagist",
                                      gcve_id |-> 0,
                                      friends_of_php_id |-> advisoryIdToUUID[info.key]]))
    IN Walk(1, {}, <<>>)

\* pgsql.deduplicateGcvePackageVulnerabilities: an item without gcve id is
\* dropped; an item whose name, ecosystem and gcve id were seen overwrites the
\* first item with them.
deduplicateGcvePackageVulnerabilities(items) ==
    LET RECURSIVE Loop(_, _)
        Loop(i, result) ==
            IF i > Len(items) THEN result
            ELSE IF items[i].gcve_id = 0 THEN Loop(i + 1, result)
            ELSE IF \E idx \in 1..Len(result) : result[idx] = items[i]
            THEN Loop(i + 1, result)
            ELSE Loop(i + 1, Append(result, items[i]))
    IN Loop(1, <<>>)

\* The stored rows that agree with the row on name, ecosystem and foreign keys.
SameLink(tbl, row) ==
    {r \in tbl : /\ r.package_name = row.package_name
                 /\ r.package_ecosystem = row.package_ecosystem
                 /\ r.gcve_id = row.gcve_id
                 /\ r.friends_of_php_id = row.friends_of_php_id}

StoredOf(row, n) ==
    [package_name |-> row.package_name,
     package_ecosystem |-> row.package_ecosystem,
     gcve_id |-> row.gcve_id,
     friends_of_php_id |-> row.friends_of_php_id,
     copy |-> n]

InsertLinks_All(tbl, items) ==
    tbl \cup {StoredOf(items[i], Cardinality(SameLink(tbl, items[i])) + 1) :
                i \in 1..Len(items)}

\* INSERT ... ON CONFLICT (package_name, package_ecosystem, gcve_id) WHERE
\* gcve_id IS NOT NULL DO NOTHING: a row is inserted unless a stored row has
\* its name, ecosystem and gcve id.
InsertLinks(tbl, items) ==
    tbl \cup {StoredOf(items[i], 1) :
                i \in {n \in 1..Len(items) : SameLink(tbl, items[n]) = {}}}

\* pgsql.BatchInsertGcvePackageVulnerabilities: deduplication, then the INSERT
\* in a transaction that a failure rolls back.
BatchInsertGcvePackageVulnerabilities(tbl, items, fault) ==
    IF fault = "insert" THEN tbl
    ELSE InsertLinks(tbl, deduplicateGcvePackageVulnerabilities(items))

\* pgsql.BatchInsertFriendsOfPhpPackageVulnerabilities: deduplication by name,
\* ecosystem and advisory id, then an INSERT that does nothing on conflict.
BatchInsertFriendsOfPhpPackageVulnerabilities(tbl, items, fault) ==
    IF fault = "insert" THEN tbl
    ELSE tbl \cup {StoredOf(items[i], 1) :
                     i \in {n \in 1..Len(items) :
                              /\ items[n].friends_of_php_id # 0
                              /\ SameLink(tbl, items[n]) = {}}}

\* The composer package names of the Packagist answers.
PhpNames == {<<"l", "i", "b">>}

\* An advisory of an answer: its advisory id and the package it is listed under.
AdvisoryInfos == [key : Keys, packageName : PhpNames]

Responses == UNION {[1..n -> AdvisoryInfos] : n \in 0..MaxBatchLen}

\* Some link occurs more than once among the products of the batch.
RepeatsLink(batch) ==
    \E i, k \in 1..Len(batch) :
       /\ batch[i].key = batch[k].key
       /\ \E j \in 1..Len(Products[batch[i].attr]),
             l \in 1..Len(Products[batch[k].attr]) :
             /\ <<i, j>> # <<k, l>>
             /\ Products[batch[i].attr][j] \notin {<<>>, <<"*">>}
             /\ LowerProducts[batch[i].attr][j] = LowerProducts[batch[k].attr][l]

\* The keys of the rows of the two vulnerability tables that the junction
\* rows reference.
ReferencedKeys(rows, gcveTbl, friendsTbl) ==
    {g.key : g \in {r \in gcveTbl : \E l \in 1..Len(rows) : rows[l].gcve_id = r.id}}
    \cup {f.key : f \in {r \in friendsTbl :
                           \E l \in 1..Len(rows) :
                              rows[l].friends_of_php_id = r.id}}

\* The advisories of an answer that fetchBatchAdvisories could not upsert in
\* any of their occurrences, or could not look up.
Unlinked(response, advisoryInfos, fault) ==
    IF fault = "fetch" THEN {}
    ELSE IF fault = "lookup" THEN {response[i].key : i \in 1..Len(response)}
    ELSE {response[i].key : i \in 1..Len(response)}
         \ {advisoryInfos[i].key : i \in 1..Len(advisoryInfos)}

\* The junction rows of a batch whose package name is none of the products
\* of the gcve row they reference.
DiscardedLinks(rows, gcveTbl) ==
    {l \in 1..Len(rows) :
       \E g \in gcveTbl :
          /\ g.id = rows[l].gcve_id
          /\ rows[l].package_name \notin Range(LowerProducts[g.attr])}

\* gcve.processBatch: BatchUpdateGcve, whose error is returned; the UUID
\* lookup, whose error is returned; the extraction; the junction insert, whose
\* error is logged.
processBatch ==
    /\ \E batch \in Batches, fault \in {"none", "upsert", "lookup", "insert"} :
         \E up \in {TxUpsert(gcve, deduplicateGcveItems(batch),
                              IF fault = "upsert" THEN "exec" ELSE "none")} :
         \E gcveIdToUUID \in {UUIDsByKeys(up.tbl, ItemKeys(batch))} :
         \E pkgVulns \in {extractPackageVulnerabilities(batch, gcveIdToUUID)} :
         \E linked \in {up.ok /\ ~(fault = "lookup" /\ Len(batch) > 0)} :
         /\ gcve' = up.tbl
         /\ package_vulnerability' =
              IF linked /\ Len(pkgVulns) > 0
              THEN BatchInsertGcvePackageVulnerabilities(
                       package_vulnerability, pkgVulns, fault)
              ELSE package_vulnerability
         /\ lastIngest' =
              [op |-> "processBatch",
               discarded |-> /\ linked
                             /\ fault = "none"
                             /\ DiscardedLinks(pkgVulns, up.tbl) # {},
               unlinked |-> fault \in {"upsert", "lookup"} /\ Len(batch) > 0,
               stray |-> /\ fault \in {"upsert", "lookup"}
                         /\ linked
                         /\ ReferencedKeys(pkgVulns, up.tbl, {})
                              \cap ItemKeys(batch) # {},
               relinked |-> /\ linked
                            /\ fault = "none"
                            /\ RepeatsLink(batch)
                            /\ \E n \in 1..Len(pkgVulns) :
                                  SameLink(package_vulnerability, pkgVulns[n]) # {}]
    /\ UNCHANGED <<osv, friends_of_php, nvd, licenses, epss, cwe, lastWrite>>
    /\ UNCHANGED <<coordVars, pkgVars, parseVars, runVars>>

\* php_security.fetchBatchAdvisories: the answer is fetched; each advisory is
\* upserted with UpdateFriendsOfPHP and left out when that fails (here: the
\* first); the UUID lookup, whose error ends the call with nil; the
\* extraction; the junction insert, whose error is logged.
fetchBatchAdvisories ==
    /\ \E response \in Responses, fault \in {"none", "fetch", "upsert", "lookup", "insert"} :
         LET RECURSIVE Upserted(_, _, _)
             Upserted(i, tbl, infos) ==
                 IF i > Len(response) THEN [tbl |-> tbl, infos |-> infos]
                 ELSE LET res == UpsertOne(tbl,
                                           [key |-> response[i].key, attr |-> "a1"],
                                           IF fault = "upsert" /\ i = 1
                                             THEN "exec" ELSE "none")
                      IN Upserted(i + 1, res.tbl,
                                  IF res.ok THEN Append(infos, response[i])
                                            ELSE infos)
         IN
         \E step1 \in {Upserted(1, friends_of_php, <<>>)} :
         \E advisoryInfos \in {step1.infos} :
         \E advisoryIdToUUID \in
               {UUIDsByKeys(step1.tbl,
                            {advisoryInfos[i].key : i \in 1..Len(advisoryInfos)})} :
         \E pkgVulns \in {extractPackageVulnerabilitiesFromFriendsOfPhp(
                              advisoryInfos, advisoryIdToUUID)} :
         \E linked \in {fault # "fetch"
                          /\ ~(fault = "lookup" /\ Len(advisoryInfos) > 0)} :
         /\ friends_of_php' = IF fault = "fetch" THEN friends_of_php ELSE step1.tbl
         /\ package_vulnerability' =
              IF linked /\ Len(pkgVulns) > 0
              THEN BatchInsertFriendsOfPhpPackageVulnerabilities(
                       package_vulnerability, pkgVulns, fault)
              ELSE package_vulnerability
         /\ lastIngest' =
              [op |-> "fetchBatchAdvisories",
               discarded |-> FALSE,
               unlinked |-> Unlinked(response, advisoryInfos, fault) # {},
               stray |-> /\ linked
                         /\ ReferencedKeys(pkgVulns, {}, step1.tbl)
                              \cap Unlinked(response, advisoryInfos, fault) # {},
               relinked |-> /\ linked
                            /\ fault = "none"
                            /\ Len(pkgVulns) < Len(advisoryInfos)
                            /\ \E n \in 1..Len(pkgVulns) :
                                  SameLink(package_vulnerability, pkgVulns[n]) # {}]
    /\ UNCHANGED <<osv, gcve, nvd, licenses, epss, cwe, lastWrite>>
    /\ UNCHANGED <<coordVars, pkgVars, parseVars, runVars>>

InitJunction == CoordIdle /\ RestIdle

NextJunction ==
    \/ processBatch
    \/ fetchBatchAdvisories

SpecJunction == InitJunction /\ [][NextJunction]_vars

\* C8: after any sequence of GCVE and FriendsOfPHP ingestion batches every
\* junction row has exactly one of its vulnerability-side foreign keys set,
\* and no two rows have the same package name, ecosystem and foreign key.
C8_JunctionKeying ==
    /\ \A r \in package_vulnerability :
          (r.gcve_id # 0) # (r.friends_of_php_id # 0)
    /\ \A r1, r2 \in package_vulnerability :
          (/\ r1.package_name = r2.package_name
           /\ r1.package_ecosystem = r2.package_ecosystem
           /\ r1.gcve_id = r2.gcve_id
           /\ r1.friends_of_php_id = r2.friends_of_php_id) => r1 = r2

\* A GCVE batch that names one product several times, and whose links were in
\* part stored by an earlier batch, has been ingested next to rows of the
\* FriendsOfPHP mirror.
C8_Witness ==
    /\ lastIngest.op = "processBatch"
    /\ lastIngest.relinked
    /\ \E r \in package_vulnerability : r.friends_of_php_id # 0
    /\ \E r \in package_vulnerability : r.gcve_id # 0

\* C31: every junction row references a stored gcve or friends_of_php row;
\* and no batch hands a junction row to the insert for a vulnerability whose
\* upsert failed or whose UUID lookup failed.
C31_JunctionAfterVulnerability ==
    /\ \A r \in package_vulnerability :
          /\ r.gcve_id # 0 => \E g \in gcve : g.id = r.gcve_id
          /\ r.friends_of_php_id # 0 =>
                \E f \in friends_of_php : f.id = r.friends_of_php_id
    /\ ~lastIngest.stray

\* A FriendsOfPHP batch in which an advisory could not be upserted or looked
\* up has been ingested, and junction rows of both mirrors are stored.
\* C38: no processBatch inserts a junction row for a product that the gcve
\* row persisted for its CVE id does not have, also when the batch holds two
\* records of one cveId.
C38_JunctionOfPersistedRow == ~lastIngest.discarded

C31_Witness ==
    /\ lastIngest.op = "fetchBatchAdvisories"
    /\ lastIngest.unlinked
    /\ \E r \in package_vulnerability : r.friends_of_php_id # 0
    /\ \E r \in package_vulnerability : r.gcve_id # 0

-----------------------------------------------------------------------------
(* NVD record normalisation: types.GetVulns.                               *)
(*                                                                         *)
(* Strings that the code takes apart are tuples of characters. A CVE is    *)
(* [id, configurations, references]; the fields GetVulns carries over as   *)
(* they are (descriptions, metrics, weaknesses, dates) are left out.       *)

\* strings.Split(s, ":").
Split(s) ==
    LET RECURSIVE F(_, _, _)
        F(i, cur, acc) ==
            IF i > Len(s) THEN Append(acc, cur)
            ELSE IF s[i] = ":" THEN F(i + 1, <<>>, Append(acc, cur))
            ELSE F(i + 1, Append(cur, s[i]), acc)
    IN F(1, <<>>, <<>>)

\* The CPE 2.3 name cpe:2.3:<part>:v:p:1:*:*:*:*:*:*:* of the NVD feed.
CriteriaOf(part) ==
    <<"c", "p", "e", ":", "2", ".", "3", ":", part, ":", "v", ":", "p", ":", "1">>
    \o <<":", "*", ":", "*", ":", "*", ":", "*", ":", "*", ":", "*", ":", "*">>

\* The CriteriaDict of a CpeMatch as the JSON decoder leaves it.
ZeroCriteriaDict ==
    [part |-> <<>>, vendor |-> <<>>, product |-> <<>>, version |-> <<>>,
     update |-> <<>>, edition |-> <<>>, language |-> <<>>, sw_edition |-> <<>>,
     target_sw |-> <<>>, target_hw |-> <<>>, other |-> <<>>]

\* A CpeMatch of the feed, for an application, an operating system or hardware.
Match(part) == [criteria |-> CriteriaOf(part), criteriaDict |-> ZeroCriteriaDict]

\* types.parseConfig: the fields 2 to 12 of the criteria, counted from 0.
parseConfig(config) ==
    LET criteria_string == Split(config.criteria)
    IN [part |-> criteria_string[3], vendor |-> criteria_string[4],
        product |-> criteria_string[5], version |-> criteria_string[6],
        update |-> criteria_string[7], edition |-> criteria_string[8],
        language |-> criteria_string[9], sw_edition |-> criteria_string[10],
        target_sw |-> criteria_string[11], target_hw |-> criteria_string[12],
        other |-> criteria_string[13]]

\* The loops of createAffected that set the CriteriaDict of each match.
WithCriteriaDict(matches) ==
    [n \in 1..Len(matches) |->
        [matches[n] EXCEPT !.criteriaDict = parseConfig(matches[n])]]

\* types.validateLibrary: some source is an application.
validateLibrary(sources) ==
    \E n \in 1..Len(sources) : sources[n].criteriaDict.part = <<"a">>

\* types.filterCpe: the sources that are applications, in order.
filterCpe(sources) ==
    LET IsApplication(source) == source.criteriaDict.part = <<"a">>
    IN SelectSeq(sources, IsApplication)

\* types.createAffected: one NVDAffected for each node of the first
\* configuration whose sources name an application.
createAffected(cve) ==
    LET nodes == IF Len(cve.configurations) > 0
                 THEN cve.configurations[1].nodes ELSE <<>>
        Entry(sources, running_on, applications_only) ==
            IF validateLibrary(sources)
            THEN <<[sources |-> filterCpe(sources),
                    running_on |-> running_on,
                    running_on_applications_only |-> applications_only]>>
            ELSE <<>>
        Of(config) ==
            IF config.operator = "AND"
            THEN IF Len(config.children) < 2
                 THEN IF Len(config.cpeMatch) > 0
                      THEN Entry(WithCriteriaDict(config.cpeMatch), <<>>, <<>>)
                      ELSE <<>>
                 ELSE LET running_on ==
                              WithCriteriaDict(config.children[2].cpeMatch)
                          sources ==
                              WithCriteriaDict(config.children[1].cpeMatch)
                      IN Entry(sources, running_on, filterCpe(running_on))
            ELSE IF config.operator = "OR"
            THEN Entry(WithCriteriaDict(config.cpeMatch), <<>>, <<>>)
            ELSE <<>>
        RECURSIVE Loop(_, _)
        Loop(i, affected) ==
            IF i > Len(nodes) THEN affected
            ELSE Loop(i + 1, affected \o Of(nodes[i]))
    IN Loop(1, <<>>)

\* types.GetVulns for the CVEs of a page: the key, the affected entries, their
\* flattening, the nil tags replaced by empty ones, the configurations dropped.
GetVulnsResult(nvdPage) ==
    [k \in 1..Len(nvdPage) |->
        LET cve == nvdPage[k]
            affected == createAffected(cve)
            flattened ==
                IF Len(affected) # 0
                THEN affected[1].sources \o affected[1].running_on
                     \o affected[1].running_on_applications_only
                ELSE <<>>
        IN [key |-> cve.id,
            id |-> cve.id,
            affected |-> affected,
            affectedFlattened |-> flattened,
            references |->
                [i \in 1..Len(cve.references) |->
                    [tags |-> [isNil |-> FALSE,
                               elems |-> cve.references[i].tags.elems]]],
            configurations |-> <<>>]]

\* The cpeMatch lists of the feed's nodes.
CpeLists ==
    {<<>>, <<Match("a")>>, <<Match("o")>>, <<Match("h"), Match("a")>>}

Leaf(matches) == [operator |-> "OR", cpeMatch |-> matches, children |-> <<>>]

\* The nodes of a configuration: an OR node with its matches, an AND node with
\* its own matches and fewer than two children, an AND node with two children.
Nodes ==
    {Leaf(l) : l \in CpeLists}
    \cup {[operator |-> "AND", cpeMatch |-> l, children |-> c] :
            l \in CpeLists, c \in {<<>>, <<Leaf(<<Match("a")>>)>>}}
    \cup {[operator |-> "AND", cpeMatch |-> <<>>,
           children |-> <<Leaf(sources), Leaf(running_on)>>] :
            sources \in CpeLists, running_on \in CpeLists}

MaxNodes == 2

NodeLists == UNION {[1..n -> Nodes] : n \in 0..MaxNodes}

\* No configuration, one, or a second one after it.
Configurations ==
    {<<>>}
    \cup {<<[nodes |-> ns]>> : ns \in NodeLists}
    \cup {<<[nodes |-> ns], [nodes |-> <<Leaf(<<Match("a")>>)>>]>> :
            ns \in NodeLists}

\* No reference, or one whose tags the decoder left nil.
References == {<<>>, <<[tags |-> [isNil |-> TRUE, elems |-> <<>>]]>>}

CVEs == [id : {"CVE-1"}, configurations : Configurations, references : References]

\* A page without vulnerabilities, or with one.
NvdResponses == {<<>>} \cup {<<cve>> : cve \in CVEs}

\* GetVulns is called on the decoded page.
GetVulns ==
    /\ ~parseDone
    /\ vulns' = GetVulnsResult(nvdResponse)
    /\ parseDone' = TRUE
    /\ UNCHANGED <<nvdResponse, data, item>>
    /\ UNCHANGED notParse

InitNvdParse ==
    /\ CoordIdle /\ StoreIdle /\ PkgIdle /\ JunctionIdle /\ RunIdle
    /\ nvdResponse \in NvdResponses
    /\ vulns = <<>>
    /\ data = NoData
    /\ item = NoItem
    /\ parseDone = FALSE

NextNvdParse == GetVulns

SpecNvdParse == InitNvdParse /\ [][NextNvdParse]_vars

\* C9: no entry of the affected_flattened of a CVE that GetVulns returned
\* has criteriaDict.part "o" or "h".
C9_OnlyApplicationCpes ==
    \A k \in 1..Len(vulns) :
       \A n \in 1..Len(vulns[k].affectedFlattened) :
          vulns[k].affectedFlattened[n].criteriaDict.part \notin {<<"o">>, <<"h">>}

-----------------------------------------------------------------------------
(* GCVE record normalisation: gcve.parseCVERecord.                         *)
(*                                                                         *)
(* A decoded line is [valid, state, cna, adp]: whether it is JSON at all,  *)
(* cveMetadata.state, the affected list of the CNA container and the ADP   *)
(* containers with their affected lists. An affected entry is its vendor   *)
(* and product, tuples of characters.                                      *)

\* gcve.buildAffectedFlattened: the entries with a product, lowercased, the
\* first of each lowercased vendor|product.
buildAffectedFlattened(affected) ==
    LET RECURSIVE Loop(_, _, _)
        Loop(i, seen, products) ==
            IF i > Len(affected) THEN products
            ELSE IF affected[i].product = <<>> THEN Loop(i + 1, seen, products)
            ELSE LET key == ToLower(affected[i].vendor) \o <<"|">>
                            \o ToLower(affected[i].product)
                 IN IF key \in seen THEN Loop(i + 1, seen, products)
                    ELSE Loop(i + 1, seen \cup {key},
                              Append(products,
                                     [vendor |-> ToLower(affected[i].vendor),
                                      product |-> ToLower(affected[i].product)]))
    IN Loop(1, {}, <<>>)

parseCVERecordResult_KeepRejected(raw) ==
    IF ~raw.valid THEN [NoItem EXCEPT !.err = TRUE]
    ELSE [isNil |-> FALSE,
          err |-> FALSE,
          state |-> raw.state,
          affected |-> raw.cna,
          affectedFlattened |-> buildAffectedFlattened(raw.cna),
          adpEnrichments |-> raw.adp]

\* gcve.parseCVERecord: an error for what is not JSON, nil for a REJECTED
\* record; else the CNA affected list, its flattening, and for each ADP
\* container its enrichment and its affected entries with a product appended
\* to the flattened list.
parseCVERecordResult(raw) ==
    IF ~raw.valid THEN [NoItem EXCEPT !.err = TRUE]
    ELSE IF raw.state = "REJECTED" THEN NoItem
    ELSE LET RECURSIVE Adp(_, _)
             Adp(i, flattened) ==
                 IF i > Len(raw.adp) THEN flattened
                 ELSE Adp(i + 1,
                          flattened
                          \o SelectSeq(raw.adp[i].affected,
                                       LAMBDA aff : aff.product # <<>>))
         IN [isNil |-> FALSE,
             err |-> FALSE,
             state |-> raw.state,
             affected |-> raw.cna,
             affectedFlattened |-> Adp(1, buildAffectedFlattened(raw.cna)),
             adpEnrichments |-> raw.adp]

\* Affected entries: one product in two spellings, the wildcard, no product.
AffVP == [vendor |-> <<"V">>, product |-> <<"P">>]

Affvp == [vendor |-> <<"v">>, product |-> <<"p">>]

AffStar == [vendor |-> <<"v">>, product |-> <<"*">>]

AffNone == [vendor |-> <<"v">>, product |-> <<>>]

CnaAffecteds ==
    {<<>>, <<AffVP>>, <<AffVP, Affvp>>, <<Affvp, AffStar>>, <<AffNone, Affvp>>,
     <<Affvp, Affvp>>}

AdpAffecteds == {<<>>, <<AffVP>>, <<Affvp>>, <<AffStar, AffNone>>}

MaxAdp == 2

AdpContainers ==
    UNION {[1..n -> [affected : AdpAffecteds]] : n \in 0..MaxAdp}

\* The lines of the CVE list: one that is not JSON, and records.
Lines ==
    {[NoData EXCEPT !.state = "PUBLISHED"]}
    \cup [valid : {TRUE}, state : {"PUBLISHED", "REJECTED"},
          cna : CnaAffecteds, adp : AdpContainers]

\* parseCVERecord is called on the line.
parseCVERecord ==
    /\ ~parseDone
    /\ item' = parseCVERecordResult(data)
    /\ parseDone' = TRUE
    /\ UNCHANGED <<nvdResponse, vulns, data>>
    /\ UNCHANGED notParse

InitGcveParse ==
    /\ CoordIdle /\ StoreIdle /\ PkgIdle /\ JunctionIdle /\ RunIdle
    /\ nvdResponse = <<>>
    /\ vulns = <<>>
    /\ data \in Lines
    /\ item = NoItem
    /\ parseDone = FALSE

NextGcveParse == parseCVERecord

SpecGcveParse == InitGcveParse /\ [][NextGcveParse]_vars

\* The lowercased (vendor, product) pairs of the CNA and ADP affected lists of
\* the line whose product is neither empty nor "*".
PairsOf(raw) ==
    LET all == Range(raw.cna)
               \cup UNION {Range(raw.adp[i].affected) : i \in 1..Len(raw.adp)}
    IN {[vendor |-> ToLower(aff.vendor), product |-> ToLower(aff.product)] :
          aff \in {a \in all : a.product \notin {<<>>, <<"*">>}}}

\* C10: the affected_flattened of a record that parseCVERecord returned holds
\* exactly the lowercased pairs of the CNA and ADP affected lists whose
\* product is neither empty nor "*", each once.
C10_AffectedFlattenedExact ==
    (parseDone /\ ~item.isNil) =>
        /\ Range(item.affectedFlattened) = PairsOf(data)
        /\ Len(item.affectedFlattened) = Cardinality(PairsOf(data))

-----------------------------------------------------------------------------
(* The cursors of the NVD and GCVE mirrors: nvd.Update and gcve.Update.    *)
(*                                                                         *)
(* Times are whole days. An invocation of nvd.Update is the record nvdRun: *)
(* its position, the cursor it read, the window [since, now] it queries,   *)
(* its restart flag, whether a page of it failed, whether it wrote the     *)
(* cursor and whether it returned an error. The recursive call of line 177 *)
(* takes the place of its caller, which only hands on what it returns.     *)

\* 24*120 hours: the oldest cursor that nvd.Update takes in one window.
WindowDays == 120

\* 24*30 hours: the oldest cursor that gcve.Update updates incrementally.
ReimportDays == 30

\* Number of days that pass while the mirrors run.
MaxTicks == 2

\* The cursors found in the config row: older than several windows, older
\* than one, a day more than a window, a window, today, and a day to come.
NvdCursors ==
    {Today - 260, Today - 200, Today - (WindowDays + 1), Today - WindowDays,
     Today, Today + 30}

GcveCursors ==
    {0, Today - (ReimportDays + 1), Today - ReimportDays, Today, Today + 30}

\* diff.Hours() > 24*120.
Windowed(lastModStartDate, now) == now - lastModStartDate > WindowDays

WindowEnd_Now(lastModStartDate, now) == now

\* The end of the window: lastModStartDate.AddDate(0, 0, 120) for a cursor
\* older than 120 days, else the time read.
WindowEnd(lastModStartDate, now) ==
    IF Windowed(lastModStartDate, now)
    THEN lastModStartDate + WindowDays
    ELSE now

\* A day passes.
Tick ==
    /\ clock < Today + MaxTicks
    /\ clock' = clock + 1
    /\ UNCHANGED <<nvd_last, gcve_last, nvdRun, gcveRun, windows>>
    /\ UNCHANGED notCursor

NvdRunning == nvdRun.pc \in {"stats", "pages", "write", "restart"}

GcveRunning == gcveRun.pc \in {"import", "write"}

\* nvd.Update, lines 70-97: the config row is read (getLastNVDChangeNumber
\* panics when the query fails or finds no row), the clock is read and the
\* window is set. Called by the coordinator, or by itself at line 177.
nvdUpdate ==
    /\ ~GcveRunning
    /\ nvdRun.pc \in {"idle", "returned", "panicked", "restart"}
    /\ \E fault \in {"none", "read"} :
         /\ nvdRun' =
              IF fault = "read"
              THEN [NoNvdRun EXCEPT !.pc = "panicked"]
              ELSE [NoNvdRun EXCEPT
                       !.pc = "stats",
                       !.read = nvd_last,
                       !.since = nvd_last,
                       !.now = WindowEnd(nvd_last, clock),
                       !.restart = Windowed(nvd_last, clock)]
         /\ windows' = IF nvdRun.pc = "restart" THEN windows ELSE <<>>
    /\ UNCHANGED <<clock, nvd_last, gcve_last, gcveRun>>
    /\ UNCHANGED notCursor

\* nvd.Update, lines 111-118: fetchNVDStats queries the window; its error is
\* returned.
fetchNVDStats ==
    /\ nvdRun.pc = "stats"
    /\ \E fault \in {"none", "stats"} :
         nvdRun' = IF fault = "stats"
                   THEN [nvdRun EXCEPT !.pc = "returned", !.err = TRUE]
                   ELSE [nvdRun EXCEPT !.pc = "pages"]
    /\ windows' = Append(windows, [since |-> nvdRun.since, until |-> nvdRun.now])
    /\ UNCHANGED <<clock, nvd_last, gcve_last, gcveRun>>
    /\ UNCHANGED notCursor

\* nvd.Update, lines 152-167: the pages are downloaded and persisted and the
\* workers are awaited. A worker logs the error of downloadBatch and drops
\* what pgsql.UpdateNvd returns.
nvdPages ==
    /\ nvdRun.pc = "pages"
    /\ \E outcome \in {"ok", "fetch", "persist"} :
         nvdRun' = [nvdRun EXCEPT !.pc = "write", !.pagesFailed = outcome # "ok"]
    /\ UNCHANGED <<clock, nvd_last, gcve_last, gcveRun, windows>>
    /\ UNCHANGED notCursor

\* nvd.Update, lines 169-184: the end of the window is written to the config
\* row; a failed write is returned; with the restart flag nvd.Update calls
\* itself.
setLastNVDChangeNumber ==
    /\ nvdRun.pc = "write"
    /\ \E fault \in {"none", "write"} :
         IF fault = "write"
         THEN /\ nvdRun' = [nvdRun EXCEPT !.pc = "returned", !.err = TRUE]
              /\ UNCHANGED nvd_last
         ELSE /\ nvdRun' = [nvdRun EXCEPT
                               !.pc = IF nvdRun.restart THEN "restart" ELSE "returned",
                               !.wrote = TRUE]
              /\ nvd_last' = nvdRun.now
    /\ UNCHANGED <<clock, gcve_last, gcveRun, windows>>
    /\ UNCHANGED notCursor

Reimport_Never(gcveLast, now) == FALSE

\* time.Since(conf.GcveLast).Hours() > 24*30.
Reimport(gcveLast, now) == now - gcveLast > ReimportDays

\* gcve.Update, lines 34-57: the config row is read, its error returned; a
\* zero cursor and one older than 30 days take the bulk import.
gcveUpdate ==
    /\ ~NvdRunning
    /\ gcveRun.pc \in {"idle", "returned"}
    /\ \E fault \in {"none", "read"} :
         gcveRun' =
           IF fault = "read"
           THEN [NoGcveRun EXCEPT !.pc = "returned", !.err = TRUE]
           ELSE [NoGcveRun EXCEPT
                    !.pc = "import",
                    !.read = gcve_last,
                    !.now = clock,
                    !.path = IF gcve_last = 0 THEN "bulk"
                             ELSE IF Reimport(gcve_last, clock)
                             THEN "reimport" ELSE "incremental"]
    /\ UNCHANGED <<clock, nvd_last, gcve_last, nvdRun, windows>>
    /\ UNCHANGED notCursor

\* gcve.Update, lines 43-76: the import, calls being the imports called and
\* what each returned. On the bulk and the reimport path bulkImport is
\* called, its failure returned, and after its success importVulnrichment,
\* whose failure is logged. On the incremental path incrementalUpdate is
\* called, and after its failure bulkImport, whose failure is returned.
gcveImport ==
    /\ gcveRun.pc = "import"
    /\ \E incremental \in BOOLEAN, bulk \in BOOLEAN, vulnrichment \in BOOLEAN :
         LET Call(op, ok) == [op |-> op, ok |-> ok]
             made ==
               IF gcveRun.path = "incremental"
               THEN <<Call("incrementalUpdate", incremental)>>
                    \o (IF incremental THEN <<>>
                        ELSE <<Call("bulkImport", bulk)>>)
               ELSE <<Call("bulkImport", bulk)>>
                    \o (IF bulk THEN <<Call("importVulnrichment", vulnrichment)>>
                        ELSE <<>>)
             ok == IF gcveRun.path = "incremental"
                   THEN incremental \/ bulk ELSE bulk
         IN gcveRun' = IF ok
                       THEN [gcveRun EXCEPT !.pc = "write", !.imported = TRUE,
                                            !.calls = made]
                       ELSE [gcveRun EXCEPT !.pc = "returned", !.err = TRUE,
                                            !.calls = made]
    /\ UNCHANGED <<clock, nvd_last, gcve_last, nvdRun, windows>>
    /\ UNCHANGED notCursor

\* gcve.Update, lines 52-53, 66-67 and 78-79: the time read now is written to
\* the config row; a failed write is returned.
setLastGCVESync ==
    /\ gcveRun.pc = "write"
    /\ \E fault \in {"none", "write"} :
         IF fault = "write"
         THEN /\ gcveRun' = [gcveRun EXCEPT !.pc = "returned", !.err = TRUE]
              /\ UNCHANGED gcve_last
         ELSE /\ gcveRun' = [gcveRun EXCEPT !.pc = "returned", !.wrote = TRUE]
              /\ gcve_last' = clock
    /\ UNCHANGED <<clock, nvd_last, nvdRun, windows>>
    /\ UNCHANGED notCursor

InitCursor ==
    /\ CoordIdle /\ BaseIdle /\ NormIdle /\ FreshIdle /\ PoolIdle /\ SideIdle
    /\ clock = Today
    /\ nvd_last \in NvdCursors
    /\ gcve_last \in GcveCursors
    /\ nvdRun = NoNvdRun
    /\ gcveRun = NoGcveRun
    /\ windows = <<>>

NextCursor ==
    \/ Tick
    \/ nvdUpdate
    \/ fetchNVDStats
    \/ nvdPages
    \/ setLastNVDChangeNumber
    \/ gcveUpdate
    \/ gcveImport
    \/ setLastGCVESync

SpecCursor == InitCursor /\ [][NextCursor]_vars

\* C11: whenever nvd.Update or gcve.Update writes its cursor, the value
\* written is at least the value the run read at its start.
C11_CursorMonotonic ==
    [][/\ (nvdRun.pc = "write" /\ nvdRun'.wrote) => nvd_last' >= nvdRun.read
       /\ (gcveRun.pc = "write" /\ gcveRun'.wrote) => gcve_last' >= gcveRun.read]_vars

\* The steps of an invocation of nvd.Update follow one another: sequential
\* code that waits for its requests and its workers and then goes on.
SpecCursorLive ==
    /\ SpecCursor
    /\ WF_vars(nvdUpdate /\ nvdRun.pc = "restart")
    /\ WF_vars(fetchNVDStats)
    /\ WF_vars(nvdPages)
    /\ WF_vars(setLastNVDChangeNumber)

\* Every queried window is at most 120 days long and starts where the
\* window before it ended.
WindowsBounded ==
    /\ \A i \in 1..Len(windows) : windows[i].until - windows[i].since <= WindowDays
    /\ \A i \in 1..(Len(windows) - 1) : windows[i + 1].since = windows[i].until

\* A run that found its cursor c more than 120 days old queries [c, c + 120].
WindowedRunQueries ==
    (NvdRunning /\ nvdRun.restart) =>
        /\ nvdRun.since = nvdRun.read
        /\ nvdRun.now = nvdRun.read + WindowDays

\* A chain of runs that returned without error left the cursor at the time
\* its last run read, which is not windowed.
ChainEndsAtNow ==
    (nvdRun.pc = "returned" /\ ~nvdRun.err) =>
        /\ ~nvdRun.restart
        /\ nvd_last = nvdRun.now
        /\ nvd_last <= clock
        /\ nvd_last >= Today
        /\ windows[Len(windows)].until = nvd_last

C14_CursorOnlyOnSuccess ==
    [][(nvdRun.pc = "write" /\ nvdRun.pagesFailed) => ~nvdRun'.wrote]_vars

\* The imports that a run of gcve.Update has called, by name.
GcveCalled(op) == \E i \in 1..Len(gcveRun.calls) : gcveRun.calls[i].op = op

GcveFailed(op) ==
    \E i \in 1..Len(gcveRun.calls) :
        gcveRun.calls[i].op = op /\ ~gcveRun.calls[i].ok

\* The cursor that the run read is absent or older than 30 days.
BulkDue == gcveRun.read = 0 \/ gcveRun.now - gcveRun.read > 30

\* The original statement of C22: the bulk import is called exactly when the
\* cursor is absent or older than 30 days, the incremental update otherwise,
\* and the cursor is written only after the chosen import succeeded.
C22_BulkOnlyWhenDue ==
    gcveRun.calls # <<>> =>
        /\ GcveCalled("bulkImport") <=> BulkDue
        /\ GcveCalled("incrementalUpdate") <=> ~BulkDue
        /\ gcveRun.wrote => ~GcveFailed(gcveRun.calls[1].op)
        /\ GcveFailed("bulkImport") => ~gcveRun.wrote /\ gcve_last = gcveRun.read

\* C22: the bulk import is called exactly when the cursor is absent or older
\* than 30 days or the incremental update has failed; the incremental update
\* is called exactly when the cursor is neither; the cursor is written only
\* after the chosen import, or the bulk import called for a failed
\* incremental update, succeeded, and is as it was read after a failed bulk
\* import.
C22_ModeFromCursor ==
    gcveRun.calls # <<>> =>
        /\ GcveCalled("bulkImport") <=>
              (BulkDue \/ GcveFailed("incrementalUpdate"))
        /\ GcveCalled("incrementalUpdate") <=> ~BulkDue
        /\ gcveRun.wrote =>
              \/ ~GcveFailed(gcveRun.calls[1].op)
              \/ /\ GcveFailed("incrementalUpdate")
                 /\ GcveCalled("bulkImport") /\ ~GcveFailed("bulkImport")
        /\ GcveFailed("bulkImport") => ~gcveRun.wrote /\ gcve_last = gcveRun.read

\* A run that read a cursor of yesterday, whose incremental update failed and
\* whose bulk import succeeded, and that wrote the cursor.
C22_Witness ==
    /\ gcveRun.pc = "returned"
    /\ gcveRun.wrote
    /\ gcveRun.read = gcveRun.now - 1
    /\ GcveFailed("incrementalUpdate")
    /\ GcveCalled("bulkImport")
    /\ gcve_last = clock

\* C29: after every bulk import that succeeded the vulnrichment import is
\* called, and when the vulnrichment import fails the run goes on to write
\* the cursor.
C29_VulnrichmentAfterBulk ==
    /\ [](\A i \in 1..Len(gcveRun.calls) :
             (gcveRun.calls[i].op = "bulkImport" /\ gcveRun.calls[i].ok) =>
                 /\ i < Len(gcveRun.calls)
                 /\ gcveRun.calls[i + 1].op = "importVulnrichment")
    /\ [][(/\ gcveRun.pc = "import"
           /\ \E i \in 1..Len(gcveRun'.calls) :
                 /\ gcveRun'.calls[i].op = "importVulnrichment"
                 /\ ~gcveRun'.calls[i].ok) => gcveRun'.pc = "write"]_vars

-----------------------------------------------------------------------------
(* Licence normalisation: tools.spdx and tools.parseLicense.               *)
(*                                                                         *)
(* The license field of a package is [kind, str]: nil, a string, an object *)
(* whose "type" is str, an array of the one string str, or a value of      *)
(* another type. A link is given by its license key; its from key is the   *)
(* argument of parseLicense.                                               *)

\* strings.Split(s, sep).
SplitBy(s, sep) ==
    LET RECURSIVE F(_, _, _)
        F(i, cur, acc) ==
            IF i > Len(s) THEN Append(acc, cur)
            ELSE IF /\ i + Len(sep) - 1 <= Len(s)
                    /\ SubSeq(s, i, i + Len(sep) - 1) = sep
            THEN F(i + Len(sep), <<>>, Append(acc, cur))
            ELSE F(i + 1, Append(cur, s[i]), acc)
    IN F(1, <<>>, <<>>)

\* strings.ReplaceAll(value, old, "") for a one-character old.
RemoveAll(value, old) == SelectSeq(value, LAMBDA c : c # old)

OrSep == <<" ", "O", "R", " ">>

AndSep == <<" ", "A", "N", "D", " ">>

\* tools.spdx: with " OR " in the value, and else with " AND " in it, the
\* parentheses are removed and the value is split by " OR ".
spdx(value) ==
    IF Contains(value, OrSep)
    THEN SplitBy(RemoveAll(RemoveAll(value, "("), ")"), OrSep)
    ELSE IF Contains(value, AndSep)
    THEN SplitBy(RemoveAll(RemoveAll(value, "("), ")"), OrSep)
    ELSE <<value>>

\* tools.parseLicense: the license keys of the links.
parseLicenseResult(p) ==
    CASE p.kind = "nil" -> <<>>
      [] p.kind = "string" -> spdx(p.str)
      [] p.kind = "map" -> <<p.str>>
      [] p.kind = "array" -> spdx(p.str)
      [] OTHER -> <<>>

\* License names and the expressions made of them.
LicenseNames == {<<"M", "I", "T">>, <<"G", "P", "L">>}

Operators == {OrSep, AndSep}

Expressions ==
    LicenseNames
    \cup {a \o op \o b : a \in LicenseNames, b \in LicenseNames, op \in Operators}
    \cup {<<"(">> \o a \o op \o b \o <<")">> :
            a \in LicenseNames, b \in LicenseNames, op \in Operators}
    \cup {a \o op1 \o <<"(">> \o b \o op2 \o c \o <<")">> :
            a \in LicenseNames, b \in LicenseNames, c \in LicenseNames,
            op1 \in Operators, op2 \in Operators}

Packs ==
    {NoPack, [kind |-> "other", str |-> <<>>]}
    \cup [kind : {"string", "array"}, str : Expressions]
    \cup [kind : {"map"}, str : LicenseNames]

\* parseLicense is called on the license field.
parseLicense ==
    /\ ~normDone
    /\ links' = parseLicenseResult(pack)
    /\ normDone' = TRUE
    /\ UNCHANGED <<pack, osvItem, osvResult, advisory, converted>>
    /\ UNCHANGED notNorm

InitLicense ==
    /\ CoordIdle /\ BaseIdle /\ CursorIdle /\ FreshIdle /\ PoolIdle /\ SideIdle
    /\ pack \in Packs
    /\ links = <<>>
    /\ osvItem = NoOsvItem
    /\ osvResult = NoOsvResult
    /\ advisory = NoAdvisory
    /\ converted = NoConverted
    /\ normDone = FALSE

NextLicense == parseLicense

SpecLicense == InitLicense /\ [][NextLicense]_vars

\* The value without its parentheses.
Stripped(value) == RemoveAll(RemoveAll(value, "("), ")")

\* C12: for a license string with " OR " and no " AND " the links are the
\* parts between the " OR ", parentheses stripped; for one with " AND " and no
\* " OR " they are the parts between the " AND "; for one with neither the
\* link is the string itself.
C12_LicenseSplit ==
    (normDone /\ pack.kind = "string") =>
        /\ (Contains(pack.str, OrSep) /\ ~Contains(pack.str, AndSep)) =>
              links = SplitBy(Stripped(pack.str), OrSep)
        /\ (Contains(pack.str, AndSep) /\ ~Contains(pack.str, OrSep)) =>
              links = SplitBy(Stripped(pack.str), AndSep)
        /\ (~Contains(pack.str, AndSep) /\ ~Contains(pack.str, OrSep)) =>
              links = <<pack.str>>

-----------------------------------------------------------------------------
(* Freshness of packages: the four-hour check of the package updates.      *)
(*                                                                         *)
(* Times are whole hours. The js and php mirrors have the same code, for   *)
(* their language; a name belongs to one of them.                          *)

\* -4 * time.Hour.
FreshHours == 4

\* Number of hours that pass between the updates.
MaxHours == 2

FollowedJs == JsPackages \cup {"js-lib"}

FollowedPhp == PhpPackages

\* What the registry answers for any package.
FreshOffer == {<<"1", ".", "0", ".", "0">>}

\* The time a conversion gives the package: for npm the time of its latest
\* version, for Packagist time.Now(). Here: a time that stays recent for one
\* more hour, and one that is four hours old.
AnswerTimes(now) == {now - (FreshHours - 1), now - FreshHours}

Recent_Before(t, now) == t < now - FreshHours

\* existingPackage.Time.After(time.Now().Add(-4 * time.Hour)).
Recent(t, now) == t > now - FreshHours

NameLists(names) ==
    {<<n>> : n \in names}
        \cup {l \in {<<n, m>> : n \in names, m \in names} : l[1] # l[2]}

HourPasses ==
    /\ hour < StartHour + MaxHours
    /\ hour' = hour + 1
    /\ UNCHANGED <<packageTime, lastFresh, package, version>>
    /\ UNCHANGED notFresh

\* js.UpdatePackage and php.UpdatePackage with the clock: the row of the name
\* is selected; when the select succeeds and the row is recent, nil is
\* returned; else the registry is asked and pgsql.UpdatePackage called.
UpdatePackageTimed ==
    /\ \E name \in FollowedJs \cup FollowedPhp, selectFailed \in BOOLEAN,
          fault \in {"none", "download", "package"} :
         \E t \in AnswerTimes(hour) :
         \E skip \in {/\ name \in package
                      /\ ~selectFailed
                      /\ Recent(packageTime[name], hour)} :
         \E res \in {IF skip \/ fault = "download"
                     THEN [ok |-> skip, package |-> package, version |-> version]
                     ELSE pgsqlUpdatePackage(package, version, name,
                                             FreshOffer, fault, {})} :
           /\ package' = res.package
           /\ version' = res.version
           /\ packageTime' =
                [n \in res.package |->
                    IF n = name /\ ~skip /\ fault = "none" THEN t
                    ELSE packageTime[n]]
           /\ lastFresh' =
                [op |-> "UpdatePackage", names |-> <<name>>,
                 selectFailed |-> selectFailed,
                 recent |-> {n \in {name} \cap package :
                               packageTime[n] + FreshHours > hour},
                 requested |-> IF skip THEN {} ELSE {name},
                 written |-> IF skip \/ fault # "none" THEN {} ELSE {name}]
    /\ UNCHANGED hour
    /\ UNCHANGED notFresh

\* UpdatePackagesBatch of the js and of the php mirror with the clock: one
\* query for the rows of the names, whose failure is logged; the names with a
\* recent row are skipped; the others are downloaded, a failed download being
\* logged; what was downloaded is upserted in one transaction.
UpdatePackagesBatchTimed ==
    /\ \E packageNames \in NameLists(FollowedJs) \cup NameLists(FollowedPhp),
          selectFailed \in BOOLEAN, txFailed \in BOOLEAN :
         \E failed \in IF txFailed THEN {{}} ELSE SUBSET Range(packageNames),
            t \in AnswerTimes(hour) :
         \E skipSet \in {{n \in Range(packageNames) \cap package :
                            ~selectFailed /\ Recent(packageTime[n], hour)}} :
         \E toDownload \in {Range(packageNames) \ skipSet} :
         \E packagesToUpdate \in {IF txFailed THEN {} ELSE toDownload \ failed} :
           /\ package' = package \cup packagesToUpdate
           /\ version' =
                version \cup UNION {VersionRows(n, StableOf(FreshOffer)) :
                                      n \in packagesToUpdate}
           /\ packageTime' =
                [n \in package \cup packagesToUpdate |->
                    IF n \in packagesToUpdate THEN t ELSE packageTime[n]]
           /\ lastFresh' =
                [op |-> "UpdatePackagesBatch", names |-> packageNames,
                 selectFailed |-> selectFailed,
                 recent |-> {n \in Range(packageNames) \cap package :
                               packageTime[n] + FreshHours > hour},
                 requested |-> toDownload,
                 written |-> packagesToUpdate]
    /\ UNCHANGED hour
    /\ UNCHANGED notFresh

InitFresh == CoordIdle /\ RestIdle

NextFresh ==
    \/ HourPasses
    \/ UpdatePackageTimed
    \/ UpdatePackagesBatchTimed

SpecFresh == InitFresh /\ [][NextFresh]_vars

-----------------------------------------------------------------------------
(* Freshness of one npm package: what js.UpdatePackage stores as its time. *)
(*                                                                         *)
(* followed.time is the time of the stored Package row, followed.updated   *)
(* the hour of the last js.UpdatePackage that returned nil after asking    *)
(* the registry, followed.last the outcome of the last call, and           *)
(* followed.again whether that call came less than four hours after such   *)
(* an update.                                                              *)

\* The latest version of the package was published at most MaxAge hours ago.
MaxAge == 5

\* result.Time[pack.LatestVersion] of the registry's answer: the time the
\* latest version was published.
PublishTimes(now) == (now - MaxAge)..now

followedHourPasses ==
    /\ followed.hour < StartHour + MaxHours
    /\ followed' = [followed EXCEPT !.hour = followed.hour + 1]
    /\ UNCHANGED <<notice, packagist, race, dispatch, imported, npmRow, downloads>>
    /\ UNCHANGED notSide

\* js.UpdatePackage: the select of the row; nil when it succeeded and the
\* row is recent; download; CreatePackageInfoNpm, whose pack.Time is
\* result.Time[pack.LatestVersion]; pgsql.UpdatePackage, which inserts or
\* updates the row with that pack.
jsUpdatePackage ==
    /\ \E selectFailed \in BOOLEAN, fault \in {"none", "download", "package"} :
         \E published \in PublishTimes(followed.hour) :
         \E skip \in {/\ followed.stored
                      /\ ~selectFailed
                      /\ Recent(followed.time, followed.hour)} :
           followed' =
             [followed EXCEPT
                !.selectFailed = selectFailed,
                !.again = /\ followed.succeeded
                          /\ followed.hour < followed.updated + 4,
                !.last = IF skip THEN "skipped"
                         ELSE IF fault = "none" THEN "updated"
                         ELSE fault,
                !.stored = followed.stored \/ (~skip /\ fault = "none"),
                !.succeeded = followed.succeeded \/ (~skip /\ fault = "none"),
                !.time = IF ~skip /\ fault = "none" THEN published
                         ELSE followed.time,
                !.updated = IF ~skip /\ fault = "none" THEN followed.hour
                            ELSE followed.updated]
    /\ UNCHANGED <<notice, packagist, race, dispatch, imported, npmRow, downloads>>
    /\ UNCHANGED notSide

InitFollowed == CoordIdle /\ RestIdle

NextFollowed ==
    \/ followedHourPasses
    \/ jsUpdatePackage

SpecFollowed == InitFollowed /\ [][NextFollowed]_vars

\* C36: a js.UpdatePackage of a name less than four hours after a
\* js.UpdatePackage of that name that asked the registry and returned nil is
\* skipped: it asks the registry nothing. Stated for the calls whose select
\* of the stored row succeeded.
C36_UpdatedMeansFresh ==
    (followed.again /\ ~followed.selectFailed) => followed.last = "skipped"

-----------------------------------------------------------------------------
(* OSV: the cve and the cwes derived from an entry.                        *)
(*                                                                         *)
(* An entry is its aliases and its database_specific map: nil, without the *)
(* key cwe_ids, with a cwe_ids that is not an array, or with an array. An   *)
(* element of cwe_ids is a JSON value: a string or not, with its text.      *)

\* strings.HasPrefix(s, prefix).
HasPrefix(s, prefix) == IsPrefix(prefix, s)

MaxAliases == 2

MaxCweIds == 2

Aliases ==
    {<<"C", "V", "E", "-", "1">>, <<"C", "V", "E", "-", "2">>,
     <<"G", "H", "S", "A", "-", "1">>, <<"c", "v", "e", "-", "3">>,
     <<"X", "C", "V", "E">>}

CweValues ==
    {[isString |-> TRUE, str |-> <<"C", "W", "E", "-", "7", "9">>],
     [isString |-> TRUE, str |-> <<"C", "W", "E", "-", "8", "9">>],
     [isString |-> TRUE, str |-> <<"N", "V", "D", "-", "C", "W", "E">>],
     [isString |-> FALSE, str |-> <<"C", "W", "E", "-", "2", "0">>]}

SeqsUpTo(S, n) == UNION {[1..k -> S] : k \in 0..n}

OsvItems ==
    {[aliases |-> a, database_specific |-> k, cwe_ids |-> c] :
        a \in SeqsUpTo(Aliases, MaxAliases),
        k \in {"array"},
        c \in SeqsUpTo(CweValues, MaxCweIds)}
    \cup
    {[aliases |-> a, database_specific |-> k, cwe_ids |-> c] :
        a \in SeqsUpTo(Aliases, MaxAliases),
        k \in {"nil", "no cwe_ids", "not an array"},
        c \in {<<>>}}

RECURSIVE extractCWEIdsFrom(_, _, _)
\* The loop of extractCWEIds over cwesRaw, from element i on.
extractCWEIdsFrom(cwesRaw, i, result) ==
    IF i > Len(cwesRaw) THEN result
    ELSE extractCWEIdsFrom(cwesRaw, i + 1,
            IF cwesRaw[i].isString /\ HasPrefix(cwesRaw[i].str, <<"C", "W", "E">>)
            THEN Append(result, cwesRaw[i].str)
            ELSE result)

extractCWEIds(databaseSpecific) ==
    IF databaseSpecific.database_specific # "array" THEN <<>>
    ELSE extractCWEIdsFrom(databaseSpecific.cwe_ids, 1, <<>>)

RECURSIVE extractCVEIdFrom(_, _)
\* The loop of extractCVEId over aliases, from element i on.
extractCVEIdFrom(aliases, i) ==
    IF i > Len(aliases) THEN <<>>
    ELSE IF HasPrefix(aliases[i], <<"C", "V", "E">>) THEN aliases[i]
    ELSE extractCVEIdFrom(aliases, i + 1)

RECURSIVE extractCVEId_Last(_)
extractCVEId_Last(aliases) ==
    IF aliases = <<>> THEN <<>>
    ELSE IF HasPrefix(aliases[Len(aliases)], <<"C", "V", "E">>)
         THEN aliases[Len(aliases)]
    ELSE extractCVEId_Last(SubSeq(aliases, 1, Len(aliases) - 1))

extractCVEId(aliases) == extractCVEIdFrom(aliases, 1)

\* The step of processEcosystem for one unmarshalled file: result.Cwes and
\* result.Cve are set from the entry.
processEcosystem ==
    /\ ~normDone
    /\ osvResult' = [cve |-> extractCVEId(osvItem.aliases),
                     cwes |-> extractCWEIds(osvItem)]
    /\ normDone' = TRUE
    /\ UNCHANGED <<pack, links, osvItem, advisory, converted>>
    /\ UNCHANGED notNorm

InitOsv ==
    /\ CoordIdle /\ BaseIdle /\ CursorIdle /\ FreshIdle /\ PoolIdle /\ SideIdle
    /\ pack = NoPack
    /\ links = <<>>
    /\ osvItem \in OsvItems
    /\ osvResult = NoOsvResult
    /\ advisory = NoAdvisory
    /\ converted = NoConverted
    /\ normDone = FALSE

NextOsv == processEcosystem

SpecOsv == InitOsv /\ [][NextOsv]_vars

\* The positions of the aliases that start with "CVE".
CveAliases ==
    {i \in 1..Len(osvItem.aliases) :
        /\ Len(osvItem.aliases[i]) >= 3
        /\ SubSeq(osvItem.aliases[i], 1, 3) = <<"C", "V", "E">>}

\* The positions of the elements of cwe_ids that are strings starting "CWE".
CweKept ==
    IF osvItem.database_specific # "array" THEN {}
    ELSE {i \in 1..Len(osvItem.cwe_ids) :
            /\ osvItem.cwe_ids[i].isString
            /\ Len(osvItem.cwe_ids[i].str) >= 3
            /\ SubSeq(osvItem.cwe_ids[i].str, 1, 3) = <<"C", "W", "E">>}

\* C16: the cve of a processed entry is its first alias that starts with
\* "CVE", empty when there is none; its cwes are the elements of
\* database_specific.cwe_ids that are strings starting with "CWE", each once
\* and in their order.
C16_OsvDerived ==
    normDone =>
        /\ IF CveAliases = {} THEN osvResult.cve = <<>>
           ELSE \E i \in CveAliases :
                   /\ \A j \in CveAliases : i <= j
                   /\ osvResult.cve = osvItem.aliases[i]
        /\ Len(osvResult.cwes) = Cardinality(CweKept)
        /\ \A i \in CweKept :
              osvResult.cwes[Cardinality({j \in CweKept : j <= i})]
                 = osvItem.cwe_ids[i].str

\* An entry with two CVE aliases after another alias, and a cwe_ids array of
\* a string that is kept and a value that is not a string.
C16_Witness ==
    /\ normDone
    /\ Len(osvItem.aliases) = 2
    /\ Cardinality(CveAliases) = 2
    /\ osvItem.aliases[1] # osvItem.aliases[2]
    /\ osvResult.cve = osvItem.aliases[1]
    /\ Len(osvItem.cwe_ids) = 2
    /\ ~osvItem.cwe_ids[1].isString
    /\ Len(osvResult.cwes) = 1

-----------------------------------------------------------------------------
(* NVD: the page goroutines of nvd.Update and the token channel.           *)
(*                                                                         *)
(* The goroutines are counted by position: waiting for a token or with the *)
(* request sent, each with the value of retries of its downloadBatch, or   *)
(* in pgsql.UpdateNvd with its transaction open.                           *)

\* maxRequests := 50, and 5 when the API key is empty.
maxRequests(apiKey) == IF apiKey THEN 50 ELSE 5

\* The largest number of pages of a window, without an API key and with one.
MaxPages == 6

MaxKeyPages == 3

RECURSIVE SumTo(_, _)
SumTo(f, r) == IF r < 0 THEN 0 ELSE f[r] + SumTo(f, r - 1)

\* The page requests that were sent and are not answered yet.
FetchesInFlight == SumTo(pages.fetching, maxRetries - 1)

\* nvd.Update from the page count on: the token channel is made, the filling
\* goroutine started, and one goroutine per page started.
spawnPages ==
    /\ pages.pc \in {"idle", "written"}
    /\ \E apiKey \in BOOLEAN, n_page \in 0..MaxPages :
         /\ apiKey => n_page <= MaxKeyPages
         /\ rateLimiter' = [apiKey |-> apiKey, tokens |-> 0]
         /\ pages' = [NoPages EXCEPT !.pc = "running", !.n_page = n_page,
                                     !.waiting[0] = n_page]
    /\ UNCHANGED <<nvdBatch, npm, pool, stream>>
    /\ UNCHANGED notPool

\* The filling goroutine: rateLimiter <- struct{}{}, then a sleep.
fillRateLimiter ==
    /\ pages.pc # "idle" \/ nvdBatch.pc # "idle"
    /\ rateLimiter.tokens < maxRequests(rateLimiter.apiKey)
    /\ rateLimiter' = [rateLimiter EXCEPT !.tokens = @ + 1]
    /\ UNCHANGED <<pages, nvdBatch, npm, pool, stream>>
    /\ UNCHANGED notPool

\* A page goroutine in downloadBatch: <-rateLimiter, and the request is sent.
pageRequest ==
    /\ pages.pc = "running"
    /\ rateLimiter.tokens > 0
    /\ \E r \in 0..(maxRetries - 1) :
         /\ pages.waiting[r] > 0
         /\ pages' = [pages EXCEPT !.waiting[r] = @ - 1, !.fetching[r] = @ + 1]
    /\ rateLimiter' = [rateLimiter EXCEPT !.tokens = @ - 1]
    /\ UNCHANGED <<nvdBatch, npm, pool, stream>>
    /\ UNCHANGED notPool

\* The server answers a page request: with 200, and downloadBatch returns
\* the page; with another status, and it returns an error that is logged;
\* with 429 or not at all, and it sleeps and tries again unless that was the
\* last try.  When downloadBatch has returned the goroutine calls
\* pgsql.UpdateNvd, which begins its transaction.
pageResponse ==
    /\ pages.pc = "running"
    /\ \E r \in 0..(maxRetries - 1), answer \in {"ok", "status", "retry"} :
         /\ pages.fetching[r] > 0
         /\ pages' =
              IF answer = "retry" /\ r + 1 < maxRetries
              THEN [pages EXCEPT !.fetching[r] = @ - 1, !.waiting[r + 1] = @ + 1]
              ELSE [pages EXCEPT !.fetching[r] = @ - 1, !.writing = @ + 1]
    /\ UNCHANGED <<rateLimiter, nvdBatch, npm, pool, stream>>
    /\ UNCHANGED notPool

\* pgsql.UpdateNvd of a page goroutine returns: its transaction is committed
\* or rolled back, and the deferred wg.Done() runs.
pageUpdateNvd ==
    /\ pages.pc = "running"
    /\ pages.writing > 0
    /\ pages' = [pages EXCEPT !.writing = @ - 1, !.finished = @ + 1]
    /\ UNCHANGED <<rateLimiter, nvdBatch, npm, pool, stream>>
    /\ UNCHANGED notPool

WaitReturns_Always(p) == TRUE

\* The counter of the WaitGroup is zero: every wg.Add(1) had its wg.Done().
WaitReturns(p) == p.finished = p.n_page

\* wg.Wait() returns.
pagesWait ==
    /\ pages.pc = "running"
    /\ WaitReturns(pages)
    /\ pages' = [pages EXCEPT !.pc = "waited"]
    /\ UNCHANGED <<rateLimiter, nvdBatch, npm, pool, stream>>
    /\ UNCHANGED notPool

\* conf.NvdLast = now and setLastNVDChangeNumber, after wg.Wait().
pagesSetLast ==
    /\ pages.pc = "waited"
    /\ pages' = [pages EXCEPT !.pc = "written"]
    /\ UNCHANGED <<rateLimiter, nvdBatch, npm, pool, stream>>
    /\ UNCHANGED notPool

InitNvdPages == CoordIdle /\ RestIdle

NextNvdPages ==
    \/ spawnPages
    \/ fillRateLimiter
    \/ pageRequest
    \/ pageResponse
    \/ pageUpdateNvd
    \/ pagesWait
    \/ pagesSetLast

SpecNvdPages == InitNvdPages /\ [][NextNvdPages]_vars

\* C17: never more than 45 page requests are in flight with an API key, and
\* never more than 5 without one.
C17_BoundedFetches ==
    FetchesInFlight <= IF rateLimiter.apiKey THEN 45 ELSE 5

\* The page goroutines that wait for a token or for an answer.
PagesFetching == SumTo(pages.waiting, maxRetries - 1) + FetchesInFlight

\* C26: of the transactions in which the pages of one NVD run are written, at
\* most one is open at any time.
C26_OneBatchTransaction == pages.writing <= 1

\* C28: nvd_last is written only when no page goroutine of the run is still
\* fetching or writing.
C28_CursorAfterWorkers ==
    [][pages.pc # "written" /\ pages'.pc = "written"
         => /\ PagesFetching = 0
            /\ pages.writing = 0
            /\ pages.finished = pages.n_page]_vars

\* nvd_last is written after a run of several pages.
C28_Witness ==
    /\ pages.pc = "written"
    /\ pages.n_page >= 2
    /\ pages.finished = pages.n_page

-----------------------------------------------------------------------------
(* NVD: one call of downloadBatch.                                         *)

Backoff_Shift1(retries) == 2 ^ retries

\* time.Duration(2<<retries) * time.Second, in seconds.
Backoff(retries) == 2 * 2 ^ retries

\* downloadBatch is called for a page: the request is built, which may fail,
\* and the call waits for a token.
downloadBatch ==
    /\ nvdBatch.pc \in {"idle", "returned"}
    /\ pages.pc = "idle"
    /\ \E apiKey \in BOOLEAN, built \in BOOLEAN :
         /\ rateLimiter' = [apiKey |-> apiKey, tokens |-> 0]
         /\ nvdBatch' = IF built THEN [NoBatch EXCEPT !.pc = "token"]
                        ELSE [NoBatch EXCEPT !.pc = "returned", !.err = TRUE]
    /\ UNCHANGED <<pages, npm, pool, stream>>
    /\ UNCHANGED notPool

\* <-rateLimiter.
batchToken ==
    /\ nvdBatch.pc = "token"
    /\ rateLimiter.tokens > 0
    /\ rateLimiter' = [rateLimiter EXCEPT !.tokens = @ - 1]
    /\ nvdBatch' = [nvdBatch EXCEPT !.pc = "do", !.taken = @ + 1]
    /\ UNCHANGED <<pages, npm, pool, stream>>
    /\ UNCHANGED notPool

\* http.DefaultClient.Do(req): the request is sent.
batchDo ==
    /\ nvdBatch.pc = "do"
    /\ nvdBatch' = [nvdBatch EXCEPT !.pc = "sent", !.requests = @ + 1]
    /\ UNCHANGED <<rateLimiter, pages, npm, pool, stream>>
    /\ UNCHANGED notPool

\* Do returns: an error or status 429 lead to the sleep; another status but
\* 200 is returned as an error; with 200 the loop is left, and the body is
\* read and decoded, which may fail.
batchAnswer ==
    /\ nvdBatch.pc = "sent"
    /\ \E answer \in {"error", "429", "status", "body", "ok"} :
         nvdBatch' =
            CASE answer \in {"error", "429"} -> [nvdBatch EXCEPT !.pc = "sleep"]
              [] answer \in {"status", "body"} ->
                   [nvdBatch EXCEPT !.pc = "returned", !.err = TRUE]
              [] OTHER -> [nvdBatch EXCEPT !.pc = "returned"]
    /\ UNCHANGED <<rateLimiter, pages, npm, pool, stream>>
    /\ UNCHANGED notPool

\* time.Sleep, continue, and the test of the loop: after the last try the
\* loop ends with retries == maxRetries and the error is returned.
batchSleep ==
    /\ nvdBatch.pc = "sleep"
    /\ nvdBatch' =
         [nvdBatch EXCEPT
            !.slept = Append(@, Backoff(nvdBatch.retries)),
            !.retries = @ + 1,
            !.pc = IF nvdBatch.retries + 1 < maxRetries THEN "token" ELSE "returned",
            !.err = ~(nvdBatch.retries + 1 < maxRetries)]
    /\ UNCHANGED <<rateLimiter, pages, npm, pool, stream>>
    /\ UNCHANGED notPool

InitNvdBatch == CoordIdle /\ RestIdle

NextNvdBatch ==
    \/ downloadBatch
    \/ fillRateLimiter
    \/ batchToken
    \/ batchDo
    \/ batchAnswer
    \/ batchSleep

SpecNvdBatch == InitNvdBatch /\ [][NextNvdBatch]_vars

\* C18: one call of downloadBatch sends at most 5 requests; a token has been
\* taken for each request, one per request; the wait after the n-th failed
\* try is 2^n seconds; after 5 failed tries the call has returned an error.
C18_BoundedRetries ==
    /\ nvdBatch.requests <= 5
    /\ nvdBatch.taken = nvdBatch.requests + (IF nvdBatch.pc = "do" THEN 1 ELSE 0)
    /\ \A n \in 1..Len(nvdBatch.slept) : nvdBatch.slept[n] = 2 ^ n
    /\ Len(nvdBatch.slept) = 5 =>
          /\ nvdBatch.pc = "returned"
          /\ nvdBatch.err
          /\ nvdBatch.requests = 5

\* Five tries were answered with 429 or not at all.
C18_Witness ==
    /\ nvdBatch.pc = "returned"
    /\ nvdBatch.err
    /\ nvdBatch.requests = 5
    /\ nvdBatch.taken = 5
    /\ nvdBatch.slept = <<2, 4, 8, 16, 32>>

-----------------------------------------------------------------------------
(* npm: download and downloadWithRetry of the js mirror.                   *)

\* if retryCount >= 3.
RetryLimit == 3

NpmBackoff_Flat(retryCount) == 30

\* time.Duration(30*(retryCount+1)) * time.Second, in seconds.
NpmBackoff(retryCount) == 30 * (retryCount + 1)

\* download(pack): downloadWithRetry(pack, 0) is called. The name is escaped
\* unless NPM_URL is the npm registry.
download ==
    /\ npm.pc \in {"idle", "returned"}
    /\ \E name \in FollowedJs \cup {"@scope/lib"}, escaped \in BOOLEAN :
         npm' = [NoNpm EXCEPT !.pc = "call", !.pack = name, !.escaped = escaped]
    /\ UNCHANGED <<rateLimiter, pages, nvdBatch, pool, stream>>
    /\ UNCHANGED notPool

\* downloadWithRetry up to httpClient.Do: the request is built, which may
\* fail, and sent.
downloadWithRetry ==
    /\ npm.pc = "call"
    /\ \E built \in BOOLEAN :
         npm' = IF built
                THEN [npm EXCEPT !.pc = "sent", !.requests = @ + 1]
                ELSE [npm EXCEPT !.pc = "returned", !.err = "request"]
    /\ UNCHANGED <<rateLimiter, pages, nvdBatch, pool, stream>>
    /\ UNCHANGED notPool

\* downloadWithRetry from the return of Do: an error of Do is returned; 404
\* is a not-found error; 429 is an error when retryCount >= 3 and otherwise
\* a sleep and the call of downloadWithRetry(pack, retryCount+1); any other
\* status but 200 is an error; with 200 the body is read and decoded.
npmAnswer ==
    /\ npm.pc = "sent"
    /\ \E answer \in {"error", "404", "429", "500", "200", "200 undecodable"} :
         npm' =
            CASE answer = "error" ->
                   [npm EXCEPT !.pc = "returned", !.err = "error"]
              [] answer = "404" ->
                   [npm EXCEPT !.pc = "returned", !.err = "package not found",
                               !.statuses = Append(@, answer)]
              [] answer = "429" /\ npm.retryCount >= RetryLimit ->
                   [npm EXCEPT !.pc = "returned", !.err = "rate limited",
                               !.statuses = Append(@, answer)]
              [] answer = "429" /\ npm.retryCount < RetryLimit ->
                   [npm EXCEPT !.pc = "call",
                               !.slept = Append(@, NpmBackoff(npm.retryCount)),
                               !.retryCount = @ + 1,
                               !.statuses = Append(@, answer)]
              [] answer = "500" ->
                   [npm EXCEPT !.pc = "returned", !.err = "can't fetch package",
                               !.statuses = Append(@, answer)]
              [] answer = "200 undecodable" ->
                   [npm EXCEPT !.pc = "returned", !.err = "body",
                               !.statuses = Append(@, "200")]
              [] OTHER ->
                   [npm EXCEPT !.pc = "returned", !.statuses = Append(@, "200")]
    /\ UNCHANGED <<rateLimiter, pages, nvdBatch, pool, stream>>
    /\ UNCHANGED notPool

InitNpm == CoordIdle /\ RestIdle

NextNpm ==
    \/ download
    \/ downloadWithRetry
    \/ npmAnswer

SpecNpm == InitNpm /\ [][NextNpm]_vars

\* The sleeps are 30*(n+1) seconds after the n-th answer 429, n from 0; only
\* an answer 429 is followed by another request; after a 404 the call has
\* returned the not-found error.
NpmSleepsAndNotFound ==
    /\ \A n \in 0..(Len(npm.slept) - 1) : npm.slept[n + 1] = 30 * (n + 1)
    /\ \A i \in 1..(Len(npm.statuses) - 1) : npm.statuses[i] = "429"
    /\ Len(npm.slept) <= Len(npm.statuses)
    /\ (npm.statuses # <<>> /\ npm.statuses[Len(npm.statuses)] = "404") =>
          /\ npm.pc = "returned"
          /\ npm.err = "package not found"
          /\ npm.requests = Len(npm.statuses)

\* The original statement of C19: at most 3 requests are sent, and a registry
\* that has answered them all with 429 gets the error.
C19_ThreeRequests ==
    /\ npm.requests <= 3
    /\ (Len(npm.statuses) = 3 /\ \A i \in 1..3 : npm.statuses[i] = "429") =>
          npm.pc = "returned" /\ npm.err = "rate limited"
    /\ NpmSleepsAndNotFound

\* C19: download sends at most 4 requests, the first and 3 retries; it sleeps
\* 30*(n+1) seconds after the n-th answer 429 for n = 0, 1, 2 and returns the
\* error after the fourth; a 404 is returned as not found without a retry.
C19_ThreeRetries ==
    /\ npm.requests <= 4
    /\ Len(npm.slept) <= 3
    /\ (Len(npm.statuses) = 4 /\ \A i \in 1..4 : npm.statuses[i] = "429") =>
          /\ npm.pc = "returned"
          /\ npm.err = "rate limited"
          /\ npm.slept = <<30, 60, 90>>
    /\ NpmSleepsAndNotFound

\* A registry that answered 429 four times.
C19_Witness ==
    /\ npm.pc = "returned"
    /\ npm.err = "rate limited"
    /\ npm.requests = 4
    /\ npm.statuses = <<"429", "429", "429", "429">>
    /\ npm.slept = <<30, 60, 90>>

-----------------------------------------------------------------------------
(* The worker pools of the js and php runners.                             *)
(*                                                                         *)
(* A unit is a package (ImportList, ImportTop10000 and ImportTopPackages,   *)
(* Follow), a batch of 50 packages (ImportListWithBatching) or a download   *)
(* (UpdatePackagesBatch). The goroutines are counted by position.           *)

\* The runners whose loop takes a slot of the channel before it starts the
\* goroutine of a unit (guard <- struct{}{}; go func ...).
GuardFirst == {"ImportList", "ImportTop", "Follow"}

\* The runners whose loop starts one goroutine per unit, the goroutine taking
\* the slot (go func ... { sem <- struct{}{} ...).
SpawnFirst == {"ImportListWithBatching", "UpdatePackagesBatch"}

\* The page loop of nvd.Update: one goroutine per page and no slot; a unit
\* is downloadBatch followed by pgsql.UpdateNvd.
Unguarded == {"nvdPages"}

\* The largest number of units of a run that end in an error.
MaxFailures == 2

\* maxGoroutines, maxConcurrency and the capacity of sem.
PoolSize ==
    [op \in GuardFirst \cup SpawnFirst \cup {"none"} |->
        CASE op = "ImportList" -> 10
          [] op \in {"ImportTop", "Follow"} -> 50
          [] op = "ImportListWithBatching" -> 5
          [] op = "UpdatePackagesBatch" -> 10
          [] OTHER -> 0]

\* The largest number of units of a run.
MaxItems == 51

\* A runner is called with its units.
poolStart ==
    /\ pool.pc \in {"idle", "waited"}
    /\ \E op \in GuardFirst \cup SpawnFirst \cup Unguarded, items \in 0..MaxItems :
         pool' = [NoPool EXCEPT !.pc = "running", !.op = op, !.items = items,
                                !.remaining = items]
    /\ UNCHANGED <<rateLimiter, pages, nvdBatch, npm, stream>>
    /\ UNCHANGED notPool

\* A pass of the loop of ImportList, ImportTop10000, ImportTopPackages and
\* Follow: wg.Add(1), guard <- struct{}{}, which blocks while the channel is
\* full, and the goroutine is started and executes its unit.
poolDispatch ==
    /\ pool.pc = "running"
    /\ pool.op \in GuardFirst
    /\ pool.remaining > 0
    /\ pool.executing < PoolSize[pool.op]
    /\ pool' = [pool EXCEPT !.remaining = @ - 1, !.executing = @ + 1]
    /\ UNCHANGED <<rateLimiter, pages, nvdBatch, npm, stream>>
    /\ UNCHANGED notPool

\* A pass of the loop of ImportListWithBatching and of UpdatePackagesBatch:
\* wg.Add(1) and the goroutine is started; it waits for a slot. A pass of
\* the page loop of nvd.Update: the goroutine is started and executes.
poolSpawn ==
    /\ pool.pc = "running"
    /\ pool.op \in SpawnFirst \cup Unguarded
    /\ pool.remaining > 0
    /\ pool' = IF pool.op \in SpawnFirst
               THEN [pool EXCEPT !.remaining = @ - 1, !.waiting = @ + 1]
               ELSE [pool EXCEPT !.remaining = @ - 1, !.executing = @ + 1]
    /\ UNCHANGED <<rateLimiter, pages, nvdBatch, npm, stream>>
    /\ UNCHANGED notPool

\* sem <- struct{}{} in a started goroutine: it executes its unit.
poolAcquire ==
    /\ pool.pc = "running"
    /\ pool.waiting > 0
    /\ pool.executing < PoolSize[pool.op]
    /\ pool' = [pool EXCEPT !.waiting = @ - 1, !.executing = @ + 1]
    /\ UNCHANGED <<rateLimiter, pages, nvdBatch, npm, stream>>
    /\ UNCHANGED notPool

\* A goroutine ends its unit, gives the slot back and ends (wg.Done). The
\* unit succeeded, or it failed: UpdatePackage logs the error it returns, as
\* do ImportListWithBatching for a batch and UpdatePackagesBatch for a
\* download; the page goroutine of nvd.Update logs the error of downloadBatch
\* and drops what pgsql.UpdateNvd returns.
poolRelease ==
    /\ pool.pc = "running"
    /\ pool.executing > 0
    /\ \E outcome \in {"ok", "fetch", "persist"} :
         /\ outcome # "ok" => pool.failed < MaxFailures
         /\ pool' =
              CASE outcome = "ok" ->
                     [pool EXCEPT !.executing = @ - 1, !.done = @ + 1]
                [] outcome = "persist" /\ pool.op \in Unguarded ->
                     [pool EXCEPT !.executing = @ - 1, !.done = @ + 1,
                                  !.failed = @ + 1]
                [] OTHER ->
                     [pool EXCEPT !.executing = @ - 1, !.done = @ + 1,
                                  !.failed = @ + 1, !.logged = @ + 1]
    /\ UNCHANGED <<rateLimiter, pages, nvdBatch, npm, stream>>
    /\ UNCHANGED notPool

\* wg.Wait() returns, after the loop.
poolWait ==
    /\ pool.pc = "running"
    /\ pool.remaining = 0
    /\ pool.done = pool.items
    /\ pool' = [pool EXCEPT !.pc = "waited"]
    /\ UNCHANGED <<rateLimiter, pages, nvdBatch, npm, stream>>
    /\ UNCHANGED notPool

InitPool == CoordIdle /\ RestIdle

NextPool ==
    \/ poolStart
    \/ poolDispatch
    \/ poolSpawn
    \/ poolAcquire
    \/ poolRelease
    \/ poolWait

SpecPool == InitPool /\ [][NextPool]_vars

\* C20: never more than N units execute, and never more than N goroutines
\* are started and not ended, N being 10 for ImportList, 50 for Follow and
\* ImportTop10000 or ImportTopPackages, 5 for ImportListWithBatching and 10
\* for UpdatePackagesBatch.
C20_BoundedWorkers ==
    pool.op \in GuardFirst \cup SpawnFirst =>
        /\ pool.executing <= PoolSize[pool.op]
        /\ pool.waiting + pool.executing <= PoolSize[pool.op]

\* C21: a runner returns only when every unit it started has ended; every
\* item is a unit once, not yet started, waiting, executing or ended; the
\* error of a unit that failed is logged; a unit that fails leaves the other
\* units as they are and the runner running.
C21_Barrier ==
    /\ [](/\ pool.remaining + pool.waiting + pool.executing + pool.done = pool.items
          /\ pool.logged = pool.failed)
    /\ [][(pool.pc = "running" /\ pool'.pc = "waited") =>
             /\ pool.done = pool.items
             /\ pool.remaining = 0 /\ pool.waiting = 0 /\ pool.executing = 0]_vars
    /\ [][pool'.failed > pool.failed =>
             /\ pool'.pc = "running"
             /\ pool'.remaining = pool.remaining
             /\ pool'.waiting = pool.waiting
             /\ pool'.executing = pool.executing - 1]_vars

-----------------------------------------------------------------------------
(* FriendsOfPHP: the conversion of an advisory to an OSV item.             *)

\* The branches an advisory has at most.
MaxBranches == 2

BranchNames == {"main", "2.x", "3.x"}

BranchVersions == {<<>>, <<"1.0.0">>, <<"1.0.0", "1.1.0">>}

Advisories ==
    {[id |-> id, Title |-> "title", Description |-> "description",
      CVE |-> cve, Link |-> "link", Reference |-> ref,
      Composer |-> "vendor/package", Branches |-> b] :
        id \in {"", "vendor/package/001"},
        cve \in {"", "CVE-2024-1"},
        ref \in {"", "reference"},
        b \in UNION {[names -> BranchVersions] :
                        names \in {n \in SUBSET BranchNames :
                                      Cardinality(n) <= MaxBranches}}}

\* The orders in which a range over the map Branches may visit its keys.
RangeOrders(m) ==
    {o \in [1..Cardinality(DOMAIN m) -> DOMAIN m] :
        \A i, j \in DOMAIN o : o[i] = o[j] => i = j}

RECURSIVE affectedVersionsFrom(_, _, _)
\* The loop over advisory.Branches, from the i-th visited branch on.
affectedVersionsFrom(Branches, order, i) ==
    IF i > Len(order) THEN <<>>
    ELSE Branches[order[i]] \o affectedVersionsFrom(Branches, order, i + 1)

convertFriendsOfPHPToOSVResult_FirstBranch(id, adv, order) ==
    [OSVId |-> "FRIENDSOFPHP-" \o id,
     Summary |-> adv.Title,
     Details |-> adv.Description,
     Aliases |-> IF adv.CVE # "" THEN <<adv.CVE>> ELSE <<>>,
     References |->
        <<[Type |-> "ADVISORY", Url |-> adv.Link]>>
           \o (IF adv.Reference # ""
               THEN <<[Type |-> "WEB", Url |-> adv.Reference]>> ELSE <<>>),
     Affected |->
        <<[Ecosystem |-> "Packagist", Name |-> adv.Composer,
           Versions |-> IF order = <<>> THEN <<>> ELSE adv.Branches[order[1]]]>>]

\* convertFriendsOfPHPToOSV, the branches being visited in the given order.
convertFriendsOfPHPToOSVResult(id, adv, order) ==
    [OSVId |-> "FRIENDSOFPHP-" \o id,
     Summary |-> adv.Title,
     Details |-> adv.Description,
     Aliases |-> IF adv.CVE # "" THEN <<adv.CVE>> ELSE <<>>,
     References |->
        <<[Type |-> "ADVISORY", Url |-> adv.Link]>>
           \o (IF adv.Reference # ""
               THEN <<[Type |-> "WEB", Url |-> adv.Reference]>> ELSE <<>>),
     Affected |->
        <<[Ecosystem |-> "Packagist", Name |-> adv.Composer,
           Versions |-> affectedVersionsFrom(adv.Branches, order, 1)]>>]

convertFriendsOfPHPToOSV ==
    /\ ~normDone
    /\ \E order \in RangeOrders(advisory.Branches) :
         converted' = convertFriendsOfPHPToOSVResult(advisory.id, advisory, order)
    /\ normDone' = TRUE
    /\ UNCHANGED <<pack, links, osvItem, osvResult, advisory>>
    /\ UNCHANGED notNorm

InitFriends ==
    /\ CoordIdle /\ BaseIdle /\ CursorIdle /\ FreshIdle /\ PoolIdle /\ SideIdle
    /\ pack = NoPack
    /\ links = <<>>
    /\ osvItem = NoOsvItem
    /\ osvResult = NoOsvResult
    /\ advisory \in Advisories
    /\ converted = NoConverted
    /\ normDone = FALSE

NextFriends == convertFriendsOfPHPToOSV

SpecFriends == InitFriends /\ [][NextFriends]_vars

\* How often a version is among the versions of the branches of the advisory.
TimesInBranches(v) ==
    Cardinality({<<b, i>> \in (DOMAIN advisory.Branches) \X (1..2) :
                    i <= Len(advisory.Branches[b]) /\ advisory.Branches[b][i] = v})

\* How often a version is among the versions of the affected entry.
TimesInAffected(v) ==
    Cardinality({i \in 1..Len(converted.Affected[1].Versions) :
                    converted.Affected[1].Versions[i] = v})

-----------------------------------------------------------------------------
(* OSV and GCVE: the loops that persist the records of an input in batches. *)
(*                                                                         *)
(* processEcosystem goes over the files of a zip archive, processNDJSONStream *)
(* over the lines of a dump and incrementalUpdate over the records of an    *)
(* /api/last answer.  The accepted records are numbered in the order of the *)
(* input; the batch under construction holds the last stream.batch of them, *)
(* and a batch handed to the persistence layer is the interval of records   *)
(* it held, with whether the write succeeded.                               *)

Loops == {"processEcosystem", "processNDJSONStream", "incrementalUpdate"}

\* batchSize = 100 (gcve), const batchSize = 100 (osv).
batchSize == 100

\* The records of an input.
MaxRecords == 203

flushBatch_Keep(s, written) ==
    [s EXCEPT !.handed = Append(@, [from |-> s.accepted - s.batch + 1,
                                     to |-> s.accepted, ok |-> written]),
              !.logged = IF written THEN @ ELSE @ + 1]

\* The batch is handed to BatchUpdateOsv or processBatch, an error of the
\* call is logged, and the batch is emptied (batch = batch[:0]).
flushBatch(s, written) ==
    [s EXCEPT !.handed = Append(@, [from |-> s.accepted - s.batch + 1,
                                     to |-> s.accepted, ok |-> written]),
              !.logged = IF written THEN @ ELSE @ + 1,
              !.batch = 0]

\* One of the loops starts on an input.
streamStart ==
    /\ stream.pc \in {"idle", "returned"}
    /\ \E loop \in Loops :
         stream' = [NoStream EXCEPT !.pc = "reading", !.loop = loop]
    /\ UNCHANGED <<rateLimiter, pages, nvdBatch, npm, pool>>
    /\ UNCHANGED notPool

\* One iteration of the loop: a record that cannot be read or parsed, is
\* empty or REJECTED is skipped; another is appended to the batch, and the
\* batch is written when it has batchSize records.
streamRecord ==
    /\ stream.pc = "reading"
    /\ stream.read < MaxRecords
    /\ \E accepted \in BOOLEAN, written \in BOOLEAN :
         LET next == [stream EXCEPT !.read = @ + 1]
             appended == [next EXCEPT !.accepted = @ + 1, !.batch = @ + 1]
         IN  /\ (~accepted \/ appended.batch < batchSize) => written
             /\ stream' = IF ~accepted THEN next
                           ELSE IF appended.batch >= batchSize
                           THEN flushBatch(appended, written)
                           ELSE appended
    /\ UNCHANGED <<rateLimiter, pages, nvdBatch, npm, pool>>
    /\ UNCHANGED notPool

\* The input ends, or the scanner of processNDJSONStream stops at a line it
\* cannot hold: the remaining batch is written if it is not empty, and the
\* loop's function returns, processNDJSONStream with scanner.Err().
streamEnd ==
    /\ stream.pc = "reading"
    /\ \E scanErr \in BOOLEAN, written \in BOOLEAN :
         /\ scanErr => stream.loop = "processNDJSONStream"
         /\ stream.batch = 0 => written
         /\ stream' =
              [(IF stream.batch > 0 THEN flushBatch(stream, written) ELSE stream)
                 EXCEPT !.pc = "returned", !.err = scanErr]
    /\ UNCHANGED <<rateLimiter, pages, nvdBatch, npm, pool>>
    /\ UNCHANGED notPool

InitStream == CoordIdle /\ RestIdle

NextStream ==
    \/ streamStart
    \/ streamRecord
    \/ streamEnd

SpecStream == InitStream /\ [][NextStream]_vars

\* The records handed to the persistence layer so far.
HandedTo == IF stream.handed = <<>> THEN 0
            ELSE stream.handed[Len(stream.handed)].to

\* C27: the batches handed to the persistence layer hold the accepted records
\* of the input in order, each record in exactly one batch and none but the
\* records of the batch under construction missing; no batch has more than
\* 100 records; when the loop has returned no record is left in the batch;
\* every failed write is logged; and after a failed write the loop goes on
\* with an empty batch as after a successful one.
C27_EveryRecordInOneBatch ==
    /\ [](/\ \A i \in 1..Len(stream.handed) :
              /\ stream.handed[i].from =
                    IF i = 1 THEN 1 ELSE stream.handed[i - 1].to + 1
              /\ stream.handed[i].to >= stream.handed[i].from
              /\ stream.handed[i].to - stream.handed[i].from + 1 <= 100
          /\ HandedTo + stream.batch = stream.accepted
          /\ stream.batch < 100
          /\ stream.pc = "returned" => stream.batch = 0
          /\ stream.logged
                = Cardinality({i \in 1..Len(stream.handed) : ~stream.handed[i].ok}))
    /\ [][stream.pc = "reading" /\ stream'.logged > stream.logged
            => /\ stream'.batch = 0
               /\ HandedTo' = stream'.accepted
               /\ stream'.read > stream.read => stream'.pc = "reading"]_vars

\* An input of more than 200 accepted records and some skipped ones: two
\* full batches, the first of which failed, and a last partial one.
C27_Witness ==
    /\ stream.pc = "returned"
    /\ stream.read > stream.accepted
    /\ Len(stream.handed) = 3
    /\ ~stream.handed[1].ok
    /\ stream.handed[2].ok
    /\ stream.handed[2].to = 200
    /\ stream.handed[3].to = stream.accepted

-----------------------------------------------------------------------------
(* GCVE: the bulk import of cvelistv5 and the vulnrichment import after it. *)
(*                                                                         *)
(* A dump is a sequence of lines, each the CVE id of cveMetadata and the    *)
(* decoded record.  bulkImport and importVulnrichment pass their dump to    *)
(* the same processNDJSONStream; a dump of this size is one batch.  A row   *)
(* of table gcve carries the parsed item as its attr.                       *)

\* The lines of a dump.
MaxDump == 2

DumpLines ==
    [cveId : Keys,
     line : {[NoData EXCEPT !.state = "PUBLISHED"],
             [NoData EXCEPT !.valid = TRUE, !.state = "REJECTED"]}
            \cup [valid : {TRUE}, state : {"PUBLISHED"},
                  cna : {<<>>, <<AffVP>>},
                  adp : {<<>>, <<[affected |-> <<Affvp>>]>>}]]

Dumps == UNION {[1..n -> DumpLines] : n \in 0..MaxDump}

\* processNDJSONStream on a dump: the items of the lines that parse to a
\* record, in the order of the dump, are written by processBatch with
\* pgsql.BatchUpdateGcve; nothing is written when there is no item.
processNDJSONStream(tbl, dump, fault) ==
    LET parsed == [i \in 1..Len(dump) |->
                     [key |-> dump[i].cveId,
                      attr |-> parseCVERecordResult(dump[i].line)]]
        items == SelectSeq(parsed, LAMBDA it : ~it.attr.err /\ ~it.attr.isNil)
    IN [items |-> items,
        res |-> TxUpsert(tbl, deduplicateGcveItems(items), fault)]

\* gcve.bulkImport: the cvelistv5 dump is downloaded and processed.
bulkImport ==
    /\ gcveRun.pc = "idle"
    /\ \E dump \in Dumps, fault \in TxFaults :
         LET out == processNDJSONStream(gcve, dump, fault) IN
         /\ gcve' = out.res.tbl
         /\ lastWrite' = Written("BatchUpdateGcve", out.items, fault, out.res)
         /\ gcveRun' = [NoGcveRun EXCEPT !.pc = "bulk"]
    /\ UNCHANGED <<osv, friends_of_php, nvd, licenses, epss, cwe>>
    /\ UNCHANGED <<clock, nvd_last, gcve_last, nvdRun, windows>>
    /\ UNCHANGED <<coordVars, pkgVars, junctionVars, parseVars>>
    /\ UNCHANGED <<normVars, freshVars, poolVars, sideVars>>

\* gcve.importVulnrichment, called when bulkImport has returned nil: the
\* vulnrichment dump is downloaded and processed.
importVulnrichment ==
    /\ gcveRun.pc = "bulk"
    /\ \E dump \in Dumps, fault \in TxFaults :
         LET out == processNDJSONStream(gcve, dump, fault) IN
         /\ gcve' = out.res.tbl
         /\ lastWrite' = Written("BatchUpdateGcve", out.items, fault, out.res)
         /\ gcveRun' = [NoGcveRun EXCEPT !.pc = "vulnrichment"]
    /\ UNCHANGED <<osv, friends_of_php, nvd, licenses, epss, cwe>>
    /\ UNCHANGED <<clock, nvd_last, gcve_last, nvdRun, windows>>
    /\ UNCHANGED <<coordVars, pkgVars, junctionVars, parseVars>>
    /\ UNCHANGED <<normVars, freshVars, poolVars, sideVars>>

InitVulnrichment == CoordIdle /\ RestIdle

NextVulnrichment ==
    \/ bulkImport
    \/ importVulnrichment

SpecVulnrichment == InitVulnrichment /\ [][NextVulnrichment]_vars

\* C30: importVulnrichment leaves the CNA-derived fields of every row that
\* was stored before it as they were, and takes no enrichment away from it.
C30_VulnrichmentMerges ==
    [][gcveRun.pc = "bulk" /\ gcveRun'.pc = "vulnrichment"
         => \A old \in gcve : \E new \in gcve' :
               /\ new.key = old.key
               /\ new.attr.affected = old.attr.affected
               /\ Range(old.attr.adpEnrichments)
                     \subseteq Range(new.attr.adpEnrichments)]_vars

-----------------------------------------------------------------------------
(* Notifications: pgsql.sendPackageUpdateNotification.                     *)
(*                                                                         *)
(* A version is a tuple of characters.  A row of the SBOM query is the     *)
(* organisation of its analysis and the version extractCurrentVersionFromSBOM *)
(* finds in its result, <<>> when it finds none.                            *)

\* The bytes of the characters of a version.
Byte(c) ==
    CASE c = "." -> 46 [] c = "0" -> 48 [] c = "1" -> 49 [] c = "2" -> 50
      [] c = "3" -> 51 [] c = "4" -> 52 [] c = "5" -> 53 [] c = "6" -> 54
      [] c = "7" -> 55 [] c = "8" -> 56 [] c = "9" -> 57
      [] c = "-" -> 45 [] c = "C" -> 67 [] c = "N" -> 78 [] c = "R" -> 82
      [] c = "a" -> 97 [] c = "b" -> 98 [] c = "e" -> 101 [] c = "t" -> 116
      [] c = "x" -> 120

\* v1 < v2 of two Go strings: byte by byte, a proper prefix first.
StringLess(v1, v2) ==
    \E i \in 1..(Len(v2)) :
       /\ \A j \in 1..(i - 1) : j <= Len(v1) /\ v1[j] = v2[j]
       /\ i - 1 <= Len(v1)
       /\ i > Len(v1) \/ Byte(v1[i]) < Byte(v2[i])

\* pgsql.compareVersions: 1 if v1 > v2, -1 if v1 < v2, 0 if equal, of the
\* strings.
compareVersions(v1, v2) ==
    IF StringLess(v2, v1) THEN 1
    ELSE IF StringLess(v1, v2) THEN -1
    ELSE 0

\* The versions of a package, and the organisations with a project on it.
NoticeVersions ==
    {<<"1", ".", "9", ".", "0">>, <<"1", ".", "1", "0", ".", "0">>,
     <<"9", ".", "0", ".", "0">>, <<"1", "0", ".", "0", ".", "0">>}

Orgs == {"org1", "org2"}

\* The newly inserted versions of an update.
MaxNew == 2

\* The rows of the SBOM query.
MaxRows == 2

SbomRows == [org : Orgs, currentVersion : NoticeVersions \cup {<<>>}]

\* The loop over newVersions: the first, and then each that compares greater
\* than the one held.
LatestNewVersion(newVersions) ==
    LET RECURSIVE Loop(_, _)
        Loop(i, latest) ==
            IF i > Len(newVersions) THEN latest
            ELSE IF latest = <<>> \/ compareVersions(newVersions[i], latest) > 0
            THEN Loop(i + 1, newVersions[i])
            ELSE Loop(i + 1, latest)
    IN Loop(1, <<>>)

\* The loop over the rows of the query: a row of an organisation that was
\* notified is skipped, as is a row without current version; a notification
\* is sent when latestNewVersion compares greater than the current version.
Notifications(rows, latest) ==
    LET RECURSIVE Loop(_, _)
        Loop(i, sent) ==
            IF i > Len(rows) THEN sent
            ELSE IF \/ \E n \in 1..Len(sent) :
                         sent[n].organization_id = rows[i].org
                    \/ rows[i].currentVersion = <<>>
                    \/ compareVersions(latest, rows[i].currentVersion) <= 0
            THEN Loop(i + 1, sent)
            ELSE Loop(i + 1,
                      Append(sent,
                             [organization_id |-> rows[i].org,
                              current_version |-> rows[i].currentVersion,
                              new_version |-> latest]))
    IN Loop(1, <<>>)

\* sendPackageUpdateNotification is called with the inserted versions.
sendPackageUpdateNotification ==
    /\ notice.pc = "called"
    /\ notice' =
         [notice EXCEPT
            !.pc = "returned",
            !.latestNewVersion = LatestNewVersion(notice.newVersions),
            !.sent = Notifications(notice.rows,
                                   LatestNewVersion(notice.newVersions))]
    /\ UNCHANGED <<packagist, race, dispatch, followed, imported, npmRow, downloads>>
    /\ UNCHANGED notSide

InitNotice ==
    /\ CoordIdle /\ BaseIdle /\ CursorIdle /\ NormIdle /\ FreshIdle /\ PoolIdle
    /\ packagist = NoPackagist
    /\ race = NoRace
    /\ dispatch = NoDispatch
    /\ followed = NoFollowed
    /\ imported = NoImported
    /\ npmRow = NoNpmRow
    /\ downloads = NoDownloads
    /\ \E newVersions \in UNION {[1..n -> NoticeVersions] : n \in 1..MaxNew},
          rows \in UNION {[1..n -> SbomRows] : n \in 0..MaxRows} :
         notice = [NoNotice EXCEPT !.pc = "called",
                                   !.newVersions = newVersions,
                                   !.rows = rows]

NextNotice == sendPackageUpdateNotification

SpecNotice == InitNotice /\ [][NextNotice]_vars

\* The numbers of a version: major, minor, patch.
RECURSIVE Number(_)
Number(digits) ==
    IF digits = <<>> THEN 0
    ELSE 10 * Number(SubSeq(digits, 1, Len(digits) - 1))
         + (Byte(digits[Len(digits)]) - 48)

SemverOf(v) == [i \in 1..3 |-> Number(SplitBy(v, <<".">>)[i])]

\* v1 > v2 under semver ordering.
SemverGreater(v1, v2) ==
    \E i \in 1..3 :
       /\ \A j \in 1..(i - 1) : SemverOf(v1)[j] = SemverOf(v2)[j]
       /\ SemverOf(v1)[i] > SemverOf(v2)[i]

\* C32: a notification is published only for a project whose current version
\* is below the newest inserted version under semver ordering; the new
\* version it reports is the semver-greatest of the inserted versions; and an
\* organisation gets at most one notification.
C32_SemverNotification ==
    notice.pc = "returned" =>
        /\ \A n \in 1..Len(notice.sent) :
              /\ SemverGreater(notice.sent[n].new_version,
                               notice.sent[n].current_version)
              /\ notice.sent[n].new_version \in Range(notice.newVersions)
              /\ \A v \in Range(notice.newVersions) :
                    ~SemverGreater(v, notice.sent[n].new_version)
        /\ \A n, m \in 1..Len(notice.sent) :
              notice.sent[n].organization_id = notice.sent[m].organization_id
                 => n = m

-----------------------------------------------------------------------------
(* Packagist: php.downloadPackagist.                                       *)
(*                                                                         *)
(* A call is its package name, the registry it talks to, the number of      *)
(* calls of downloadPackagist on the stack, counted up to MaxCalls, the     *)
(* seconds it slept, counted likewise, and the error it returned.           *)

\* The calls of downloadPackagist on the stack that are told apart.
MaxCalls == 4

PackagistNames == {"vendor/lib", "vendor/core", "vendor/none"}

\* A registry that answers as it likes, and one that answers 429 always.
Registries == {"any", "limited"}

\* What a request to the registry comes to: no answer within the timeout, a
\* status other than 200, or 200 with a body that cannot be read or parsed,
\* that lacks the package, that lists no version, or that is as expected.
PackagistAnswers ==
    {"transport", "404", "429", "500", "read", "unmarshal", "missing",
     "empty", "ok"}

\* downloadPackagist is called by the runner: the request is built and sent.
downloadPackagist ==
    /\ packagist.pc \in {"idle", "returned"}
    /\ \E packageName \in PackagistNames, registry \in Registries :
         packagist' = [NoPackagist EXCEPT !.pc = "requested",
                                          !.packageName = packageName,
                                          !.registry = registry,
                                          !.calls = 1]
    /\ UNCHANGED <<notice, race, dispatch, followed, imported, npmRow, downloads>>
    /\ UNCHANGED notSide

\* client.Do returns: on 429 the call sleeps; on anything else it returns,
\* and with it every call on the stack.
packagistAnswer ==
    /\ packagist.pc = "requested"
    /\ \E answer \in PackagistAnswers :
         /\ packagist.registry = "limited" => answer = "429"
         /\ packagist' =
              IF answer = "429"
              THEN [packagist EXCEPT !.pc = "sleeping"]
              ELSE [packagist EXCEPT !.pc = "returned",
                                     !.err = IF answer = "ok" THEN "none"
                                             ELSE answer]
    /\ UNCHANGED <<notice, race, dispatch, followed, imported, npmRow, downloads>>
    /\ UNCHANGED notSide

\* time.Sleep(60 * time.Second) is over: return downloadPackagist(packageName),
\* which builds and sends the request again.
packagistRetry ==
    /\ packagist.pc = "sleeping"
    /\ packagist' =
         [packagist EXCEPT
            !.pc = "requested",
            !.calls = IF @ < MaxCalls THEN @ + 1 ELSE @,
            !.slept = IF @ < 60 * MaxCalls THEN @ + 60 ELSE @]
    /\ UNCHANGED <<notice, race, dispatch, followed, imported, npmRow, downloads>>
    /\ UNCHANGED notSide

InitPackagist == CoordIdle /\ RestIdle

NextPackagist ==
    \/ downloadPackagist
    \/ packagistAnswer
    \/ packagistRetry

SpecPackagist == InitPackagist /\ [][NextPackagist]_vars

\* The request of a call is answered or times out after 30 seconds, and the
\* sleep of a call ends.
SpecPackagistLive ==
    /\ SpecPackagist
    /\ WF_vars(packagistAnswer)
    /\ WF_vars(packagistRetry)

\* C33: a call of downloadPackagist to a registry that answers 429 to every
\* request returns.
C33_BoundedRetries ==
    (packagist.pc = "requested" /\ packagist.registry = "limited")
       ~> (packagist.pc = "returned")

-----------------------------------------------------------------------------
(* Two concurrent calls of pgsql.UpdatePackage for one name and language.  *)
(*                                                                         *)
(* Both calls carry the same package with one stable version.  The rows of  *)
(* table package for the name are numbered 1, 2 in the order of their       *)
(* insertion; race.versions[id] counts the rows of table version for the    *)
(* version and the package row id.  The schema is not part of the source:   *)
(* race.unique says whether the natural keys have unique indexes.  Each     *)
(* statement of a call is a step, as none is in a transaction.              *)

Callers == {1, 2}

\* The rows of the name that are stored before the calls.
MaxStored == 1

\* The two calls start, as two goroutines of ImportList with the same name
\* or of two runs.
raceStart ==
    /\ \A c \in Callers : race.calls[c].pc \in {"idle", "returned"}
    /\ \E unique \in BOOLEAN, packages \in 0..MaxStored, stored \in 0..1 :
         /\ stored <= packages
         /\ race' = [unique |-> unique, packages |-> packages,
                     versions |-> [id \in 1..(MaxStored + 2) |->
                                     IF id = 1 THEN stored ELSE 0],
                     calls |-> [c \in Callers |->
                                  [NoCall EXCEPT !.pc = "select"]]]
    /\ UNCHANGED <<notice, packagist, dispatch, followed, imported, npmRow, downloads>>
    /\ UNCHANGED notSide

\* The first SELECT of a call by name and language.
raceSelect ==
    /\ \E c \in Callers :
         /\ race.calls[c].pc = "select"
         /\ race' = [race EXCEPT !.calls[c].pc = "write",
                                 !.calls[c].found = race.packages > 0]
    /\ UNCHANGED <<notice, packagist, dispatch, followed, imported, npmRow, downloads>>
    /\ UNCHANGED notSide

\* The INSERT of the package when the SELECT found no row, which a unique
\* index rejects when a row is stored by now; else the UPDATE by id.
racePackage ==
    /\ \E c \in Callers :
         /\ race.calls[c].pc = "write"
         /\ race' =
              IF race.calls[c].found
              THEN [race EXCEPT !.calls[c].pc = "reselect"]
              ELSE IF race.unique /\ race.packages > 0
              THEN [race EXCEPT !.calls[c].pc = "returned",
                                !.calls[c].ok = FALSE]
              ELSE [race EXCEPT !.calls[c].pc = "reselect",
                                !.packages = @ + 1]
    /\ UNCHANGED <<notice, packagist, dispatch, followed, imported, npmRow, downloads>>
    /\ UNCHANGED notSide

\* The second SELECT, with the versions of the package: Scan takes one of
\* the rows of the name, and found says whether it has the version.
raceReselect ==
    /\ \E c \in Callers, id \in 1..race.packages :
         /\ race.calls[c].pc = "reselect"
         /\ race' = [race EXCEPT !.calls[c].pc = "version",
                                 !.calls[c].id = id,
                                 !.calls[c].found = race.versions[id] > 0]
    /\ UNCHANGED <<notice, packagist, dispatch, followed, imported, npmRow, downloads>>
    /\ UNCHANGED notSide

\* The loop over pack.Versions: the INSERT of the version when the package
\* row did not have it, which a unique index rejects when it has it by now;
\* else the UPDATE.  The call returns.
raceVersion ==
    /\ \E c \in Callers :
         /\ race.calls[c].pc = "version"
         /\ race' =
              LET id == race.calls[c].id IN
              IF race.calls[c].found
              THEN [race EXCEPT !.calls[c].pc = "returned"]
              ELSE IF race.unique /\ race.versions[id] > 0
              THEN [race EXCEPT !.calls[c].pc = "returned",
                                !.calls[c].ok = FALSE]
              ELSE [race EXCEPT !.calls[c].pc = "returned",
                                !.versions[id] = @ + 1]
    /\ UNCHANGED <<notice, packagist, dispatch, followed, imported, npmRow, downloads>>
    /\ UNCHANGED notSide

InitRace == CoordIdle /\ RestIdle

NextRace ==
    \/ raceStart
    \/ raceSelect
    \/ racePackage
    \/ raceReselect
    \/ raceVersion

SpecRace == InitRace /\ [][NextRace]_vars

\* C34: when both calls have returned, both returned nil, one package row is
\* stored for the name and one version row for it and the version.
C34_ConcurrentUpdatePackage ==
    (\A c \in Callers : race.calls[c].pc = "returned") =>
        /\ \A c \in Callers : race.calls[c].ok
        /\ race.packages = 1
        /\ \A id \in DOMAIN race.versions :
              race.versions[id] = IF id = 1 THEN 1 ELSE 0

-----------------------------------------------------------------------------
(* GCVE: what an import writes for the records it is given.                *)
(*                                                                         *)
(* bulkImport and importVulnrichment read their records with               *)
(* processNDJSONStream, incrementalUpdate with its own loop; all hand the   *)
(* parsed items to processBatch.  imported keeps the records and the fault  *)
(* of the call; the tables are empty before it.                            *)

ImportLoops == {"bulkImport", "importVulnrichment", "incrementalUpdate"}

\* A record: what is not JSON, a REJECTED record with a product, and
\* PUBLISHED records with a product of the CNA or of an ADP container.
ImportLines ==
    [cveId : Keys,
     line : {NoData,
             [valid |-> TRUE, state |-> "REJECTED", cna |-> <<AffVP>>,
              adp |-> <<>>],
             [valid |-> TRUE, state |-> "PUBLISHED", cna |-> <<AffVP>>,
              adp |-> <<>>],
             [valid |-> TRUE, state |-> "PUBLISHED", cna |-> <<>>,
              adp |-> <<[affected |-> <<Affvp>>]>>]}]

ImportRecords == UNION {[1..n -> ImportLines] : n \in 0..MaxDump}

\* gcve.extractPackageVulnerabilities on parsed items: for each item with a
\* UUID, its affected entries and then those of its ADP enrichments, but
\* for the ones without product or with product "*" and the ones whose
\* lowercased product was seen with the CVE id.
extractParsedVulnerabilities(gcveItems, gcveIdToUUID) ==
    LET RECURSIVE AdpAffected(_, _)
        AdpAffected(adp, i) ==
            IF i > Len(adp) THEN <<>>
            ELSE adp[i].affected \o AdpAffected(adp, i + 1)
        affs(i) == gcveItems[i].attr.affected
                     \o AdpAffected(gcveItems[i].attr.adpEnrichments, 1)
        RECURSIVE Walk(_, _, _, _)
        Walk(i, j, seen, pkgVulns) ==
            IF i > Len(gcveItems) THEN pkgVulns
            ELSE IF gcveItems[i].key \notin DOMAIN gcveIdToUUID \/ j > Len(affs(i))
            THEN Walk(i + 1, 1, seen, pkgVulns)
            ELSE LET product == affs(i)[j].product
                     key == <<ToLower(product), gcveItems[i].key>>
                 IN IF product = <<>> \/ product = <<"*">> \/ key \in seen
                    THEN Walk(i, j + 1, seen, pkgVulns)
                    ELSE Walk(i, j + 1, seen \cup {key},
                              Append(pkgVulns,
                                     [package_name |-> ToLower(product),
                                      package_ecosystem |-> "gcve",
                                      gcve_id |-> gcveIdToUUID[gcveItems[i].key],
                                      friends_of_php_id |-> 0]))
    IN Walk(1, 1, {}, <<>>)

\* One import: the records are parsed, the ones with an error or without
\* item are passed over, and the others go to processBatch: the upsert,
\* whose error ends it, the UUID lookup, whose error ends it, the extraction
\* and the junction insert, whose error is logged.
importRecords ==
    /\ imported.pc = "idle"
    /\ \E loop \in ImportLoops, records \in ImportRecords,
          fault \in {"none", "upsert", "lookup", "insert"} :
         \E out \in {processNDJSONStream(gcve, records,
                                          IF fault = "upsert" THEN "exec"
                                          ELSE "none")} :
         \E pkgVulns \in {extractParsedVulnerabilities(
                              out.items,
                              UUIDsByKeys(out.res.tbl, ItemKeys(out.items)))} :
           /\ gcve' = out.res.tbl
           /\ package_vulnerability' =
                IF out.res.ok /\ fault # "lookup" /\ Len(pkgVulns) > 0
                THEN BatchInsertGcvePackageVulnerabilities(
                         package_vulnerability, pkgVulns, fault)
                ELSE package_vulnerability
           /\ imported' = [pc |-> "returned", loop |-> loop,
                           records |-> records, fault |-> fault]
    /\ UNCHANGED <<osv, friends_of_php, nvd, licenses, epss, cwe, lastWrite>>
    /\ UNCHANGED <<coordVars, pkgVars, parseVars, lastIngest>>
    /\ UNCHANGED <<cursorVars, normVars, freshVars, poolVars>>
    /\ UNCHANGED <<notice, packagist, race, dispatch, followed, npmRow, downloads>>

InitRejected == CoordIdle /\ RestIdle

NextRejected == importRecords

SpecRejected == InitRejected /\ [][NextRejected]_vars

\* The CVE ids of the records that are JSON and not REJECTED.
AcceptedIds ==
    {imported.records[i].cveId :
       i \in {n \in 1..Len(imported.records) :
                /\ imported.records[n].line.valid
                /\ imported.records[n].line.state # "REJECTED"}}

\* C37: after an import no gcve row is a REJECTED record or the row of an id
\* whose records were all REJECTED or not JSON, no junction row references
\* anything but the row of an accepted record, and the records after one
\* that was passed over are imported: without fault every accepted id has
\* its row, and every accepted id with a product its junction row.
C37_RejectedNeverWritten ==
    /\ \A g \in gcve :
          /\ g.attr.state # "REJECTED"
          /\ ~g.attr.isNil
          /\ ~g.attr.err
          /\ g.key \in AcceptedIds
    /\ \A r \in package_vulnerability :
          \E g \in gcve : g.id = r.gcve_id /\ g.key \in AcceptedIds
    /\ (imported.pc = "returned" /\ imported.fault = "none") =>
          /\ {g.key : g \in gcve} = AcceptedIds
          /\ {r.gcve_id : r \in package_vulnerability} = {g.id : g \in gcve}

\* An incremental import of a REJECTED record and, after it, a PUBLISHED
\* record of another id: one row and one junction row.
C37_Witness ==
    /\ imported.pc = "returned"
    /\ imported.loop = "incrementalUpdate"
    /\ imported.fault = "none"
    /\ Len(imported.records) = 2
    /\ imported.records[1].line.state = "REJECTED"
    /\ imported.records[2].line.state = "PUBLISHED"
    /\ imported.records[1].cveId # imported.records[2].cveId
    /\ Cardinality(gcve) = 1
    /\ Cardinality(package_vulnerability) = 1

-----------------------------------------------------------------------------
(* npm: latest_version of the Package row and the Version rows.            *)
(*                                                                         *)
(* npmRow.versions are the version strings of the Version rows of the      *)
(* package, npmRow.offered the versions of the last answer of the          *)
(* registry.                                                               *)

\* Most versions in one answer of the registry for this package.
MaxVersions == 3

NpmAnswers ==
    {S \in SUBSET RegistryVersions : S # {} /\ Cardinality(S) <= MaxVersions}

\* The version without its prerelease part.
CoreOf(v) == SplitBy(v, <<"-">>)[1]

\* v1 comes before v2 in semver order: by major, minor and patch; of two
\* with the same three a prerelease comes before the release, and two
\* prereleases in the order of their bytes.
SemverBefore(v1, v2) ==
    \/ SemverGreater(CoreOf(v2), CoreOf(v1))
    \/ /\ SemverOf(CoreOf(v1)) = SemverOf(CoreOf(v2))
       /\ \/ Contains(v1, <<"-">>) /\ ~Contains(v2, <<"-">>)
          \/ /\ Contains(v1, <<"-">>)
             /\ Contains(v2, <<"-">>)
             /\ StringLess(v1, v2)

\* types.GetLatestVersion: the version strings of all the versions of the
\* answer, sorted by semver.SortStrings in descending order; the first.
GetLatestVersion(npmVersions) ==
    CHOOSE v \in npmVersions :
       \A w \in npmVersions \ {v} : SemverBefore(w, v)

\* js.UpdatePackage past the freshness check: download, CreatePackageInfoNpm
\* with pack.LatestVersion = GetLatestVersion(result.Versions), and
\* pgsql.UpdatePackage, which inserts or updates the Package row with the
\* pack and inserts the versions that isPreviewVersion does not hold of.
npmUpdatePackage ==
    /\ \E offered \in NpmAnswers, fault \in {"none", "download", "package"} :
         npmRow' =
           IF fault # "none"
           THEN [npmRow EXCEPT !.offered = offered, !.last = fault]
           ELSE [stored |-> TRUE,
                 latest_version |-> GetLatestVersion(offered),
                 versions |-> npmRow.versions \cup StableOf(offered),
                 offered |-> offered,
                 last |-> "updated"]
    /\ UNCHANGED <<notice, packagist, race, dispatch, followed, imported,
                   downloads>>
    /\ UNCHANGED notSide

InitNpmRow == CoordIdle /\ RestIdle

NextNpmRow == npmUpdatePackage

SpecNpmRow == InitNpmRow /\ [][NextNpmRow]_vars

\* C39: latest_version of the stored Package row is the version string of
\* one of the Version rows of the package.
C39_LatestIsPersisted ==
    npmRow.stored => npmRow.latest_version \in npmRow.versions

-----------------------------------------------------------------------------
(* UpdatePackagesBatch, phase 2: the concurrent downloads.                 *)
(*                                                                         *)
(* The js and the php mirror have the same code.  The goroutines of the    *)
(* names run the same code, so downloads counts them by where they are:    *)
(* queued before sem <- struct{}{}, holding the semaphore while they       *)
(* download, finished after their send and their deferred calls.           *)
(* downloads.results is the number of results in the channel and           *)
(* downloads.collected the number the range loop has received.             *)

\* sem := make(chan struct{}, 10).
semCapacity == 10

\* Most names in toDownload.
MaxDownloads == 12

ResultsCapacity_Unbuffered(toDownload) == 0

\* results := make(chan packageResult, len(toDownload)).
ResultsCapacity(toDownload) == toDownload

\* toDownload is not empty: the channels are made.
downloadsStart ==
    /\ downloads.pc = "idle"
    /\ \E n \in 1..MaxDownloads :
         downloads' = [NoDownloads EXCEPT !.pc = "spawning", !.n = n]
    /\ UNCHANGED <<notice, packagist, race, dispatch, followed, imported,
                   npmRow>>
    /\ UNCHANGED notSide

\* One iteration of the loop over toDownload: downloadWg.Add(1) and the go
\* statement; after the last one the goroutine that waits and closes is
\* started and the range loop entered.
downloadsSpawn ==
    /\ downloads.pc = "spawning"
    /\ downloads' =
         IF downloads.spawned < downloads.n
         THEN [downloads EXCEPT !.spawned = @ + 1, !.queued = @ + 1]
         ELSE [downloads EXCEPT !.pc = "collecting", !.closer = "waiting"]
    /\ UNCHANGED <<notice, packagist, race, dispatch, followed, imported,
                   npmRow>>
    /\ UNCHANGED notSide

\* A goroutine passes sem <- struct{}{} and starts its download.
downloadsAcquire ==
    /\ downloads.queued > 0
    /\ downloads.holding < semCapacity
    /\ downloads' = [downloads EXCEPT !.queued = @ - 1, !.holding = @ + 1]
    /\ UNCHANGED <<notice, packagist, race, dispatch, followed, imported,
                   npmRow>>
    /\ UNCHANGED notSide

\* The download of a goroutine returns, with or without error: it sends its
\* one result, which needs room in the channel and panics on a closed one,
\* returns, and its deferred calls release the semaphore and call
\* downloadWg.Done().
downloadsSend ==
    /\ downloads.holding > 0
    /\ downloads.closes > 0 \/ downloads.results < ResultsCapacity(downloads.n)
    /\ downloads' =
         IF downloads.closes > 0
         THEN [downloads EXCEPT !.panicked = TRUE, !.holding = @ - 1,
                                !.finished = @ + 1]
         ELSE [downloads EXCEPT !.results = @ + 1, !.holding = @ - 1,
                                !.finished = @ + 1]
    /\ UNCHANGED <<notice, packagist, race, dispatch, followed, imported,
                   npmRow>>
    /\ UNCHANGED notSide

\* downloadWg.Wait() returns when the counter is zero, and close(results).
downloadsClose ==
    /\ downloads.closer = "waiting"
    /\ downloads.finished = downloads.spawned
    /\ downloads' = [downloads EXCEPT !.closer = "closed", !.closes = @ + 1]
    /\ UNCHANGED <<notice, packagist, race, dispatch, followed, imported,
                   npmRow>>
    /\ UNCHANGED notSide

\* for result := range results: a result is received, or the loop ends on
\* the closed and empty channel.
downloadsCollect ==
    /\ downloads.pc = "collecting"
    /\ downloads.results > 0 \/ downloads.closes > 0
    /\ downloads' =
         IF downloads.results > 0
         THEN [downloads EXCEPT !.results = @ - 1, !.collected = @ + 1]
         ELSE [downloads EXCEPT !.pc = "collected"]
    /\ UNCHANGED <<notice, packagist, race, dispatch, followed, imported,
                   npmRow>>
    /\ UNCHANGED notSide

InitDownloads == CoordIdle /\ RestIdle

NextDownloads ==
    \/ downloadsStart
    \/ downloadsSpawn
    \/ downloadsAcquire
    \/ downloadsSend
    \/ downloadsClose
    \/ downloadsCollect

SpecDownloads == InitDownloads /\ [][NextDownloads]_vars

\* The Go scheduler runs every goroutine that can take a step, and every
\* download returns.
SpecDownloadsLive ==
    /\ SpecDownloads
    /\ WF_vars(downloadsSpawn)
    /\ WF_vars(downloadsAcquire)
    /\ WF_vars(downloadsSend)
    /\ WF_vars(downloadsClose)
    /\ WF_vars(downloadsCollect)

\* Some goroutine of the phase can take a step.
DownloadsCanStep ==
    \/ downloads.pc = "spawning"
    \/ downloads.queued > 0 /\ downloads.holding < semCapacity
    \/ /\ downloads.holding > 0
       /\ downloads.closes > 0 \/ downloads.results < ResultsCapacity(downloads.n)
    \/ downloads.closer = "waiting" /\ downloads.finished = downloads.spawned
    \/ /\ downloads.pc = "collecting"
       /\ downloads.results > 0 \/ downloads.closes > 0

\* C40: while the phase runs some goroutine can take a step; no goroutine
\* that holds the semaphore ever finds the results channel full or closed;
\* every goroutine that has finished has sent one result, which is in the
\* channel or was received; the channel is closed at most once and only
\* when every goroutine has finished; when the range loop has ended every
\* name's result was received and no goroutine is queued at the semaphore
\* or holds it; and the range loop ends in every run.
C40_DownloadsTerminate ==
    /\ [](/\ downloads.pc \in {"spawning", "collecting"} => DownloadsCanStep
          /\ downloads.holding <= 10
          /\ downloads.holding > 0 =>
                /\ downloads.closes = 0
                /\ downloads.results < downloads.n
          /\ ~downloads.panicked
          /\ downloads.results + downloads.collected = downloads.finished
          /\ downloads.closes <= 1
          /\ downloads.closes = 1 =>
                /\ downloads.finished = downloads.n
                /\ downloads.spawned = downloads.n
          /\ downloads.pc = "collected" =>
                /\ downloads.collected = downloads.n
                /\ downloads.queued = 0
                /\ downloads.holding = 0
                /\ downloads.closes = 1)
    /\ (downloads.pc = "spawning") ~> (downloads.pc = "collected")

\* The range loop has ended after the downloads of more names than the
\* semaphore admits at a time.
C40_Witness ==
    /\ downloads.pc = "collected"
    /\ downloads.n > 10
    /\ downloads.collected = downloads.n

-----------------------------------------------------------------------------
(* NVD: the pages of a window by the number of its results.                *)
(*                                                                         *)
(* dispatch.index[i + 1] is the startIndex of the request of the goroutine  *)
(* started with i.  What the goroutines do is in SpecNvdPages.              *)

\* element_page := 2000.
element_page == 2000

\* The largest totalResults of a window.
MaxResults == 4001

PageCount_Floor(totalResults) == totalResults \div element_page

\* n_page := int(result.TotalResults / element_page), and one more when
\* result.TotalResults%element_page != 0.
PageCount(totalResults) ==
    IF totalResults % element_page # 0
    THEN totalResults \div element_page + 1
    ELSE totalResults \div element_page

\* nvd.Update from the answer of fetchNVDStats on: the page count, and for
\* i from 0 below n_page a goroutine whose downloadBatch asks for
\* index := i * element_page.
dispatchPages ==
    /\ dispatch.pc = "stats"
    /\ dispatch' =
         [dispatch EXCEPT
            !.pc = "running",
            !.n_page = PageCount(dispatch.totalResults),
            !.index = [k \in 1..PageCount(dispatch.totalResults) |->
                         (k - 1) * element_page]]
    /\ UNCHANGED <<notice, packagist, race, followed, imported, npmRow, downloads>>
    /\ UNCHANGED notSide

\* wg.Wait() has returned: conf.NvdLast = now and setLastNVDChangeNumber.
dispatchSetLast ==
    /\ dispatch.pc = "running"
    /\ dispatch' = [dispatch EXCEPT !.pc = "written", !.wrote = TRUE]
    /\ UNCHANGED <<notice, packagist, race, followed, imported, npmRow, downloads>>
    /\ UNCHANGED notSide

InitNvdIndex ==
    /\ CoordIdle /\ BaseIdle /\ CursorIdle /\ NormIdle /\ FreshIdle /\ PoolIdle
    /\ notice = NoNotice
    /\ packagist = NoPackagist
    /\ race = NoRace
    /\ followed = NoFollowed
    /\ imported = NoImported
    /\ npmRow = NoNpmRow
    /\ downloads = NoDownloads
    /\ \E totalResults \in 0..MaxResults :
         dispatch = [NoDispatch EXCEPT !.pc = "stats",
                                       !.totalResults = totalResults]

NextNvdIndex ==
    \/ dispatchPages
    \/ dispatchSetLast

SpecNvdIndex == InitNvdIndex /\ [][NextNvdIndex]_vars

\* C35: for R results the run starts as many pages as the least n with
\* 2000 n >= R, with the start indices 0, 2000, 4000, ... in turn, every
\* result index below R lies in exactly one page, and the cursor is written
\* at the end, also for R = 0, when no page is started.
C35_PagesCoverResults ==
    LET R == dispatch.totalResults
        InPage(k, p) == /\ dispatch.index[p] <= k
                        /\ k < dispatch.index[p] + 2000
    IN /\ dispatch.pc # "stats" =>
             /\ Len(dispatch.index) = dispatch.n_page
             /\ 2000 * dispatch.n_page >= R
             /\ 2000 * (dispatch.n_page - 1) < R
             /\ \A p \in 1..Len(dispatch.index) :
                   dispatch.index[p] = 2000 * (p - 1)
             /\ \A k \in 0..(R - 1) :
                   Cardinality({p \in 1..Len(dispatch.index) : InPage(k, p)}) = 1
             /\ R = 0 => dispatch.index = <<>>
       /\ dispatch.pc = "written" => dispatch.wrote

\* The cursor is written after a window of 4001 results: two full pages
\* and a third with one result.
C35_Witness ==
    /\ dispatch.pc = "written"
    /\ dispatch.totalResults = 4001
    /\ dispatch.index = <<0, 2000, 4000>>

-----------------------------------------------------------------------------
(* The scheduler: the cron job of main and its invocations.                *)
(*                                                                         *)
(* The scheduler starts the function given to c.AddFunc in a goroutine of   *)
(* its own each time the expression fires; main wraps nothing around it.    *)
(* An invocation is the mirror knowledge.Update executes, by its index in   *)
(* MirrorOrder, and where the NVD mirror is with the cursor row.            *)

\* The invocations of the cron job that the scheduler starts.
MaxJobs == 3

NvdIndex == CHOOSE i \in 1..Len(MirrorOrder) : MirrorOrder[i] = "nvd"

\* The cron expression fires: the scheduler starts the job.
cronFire ==
    /\ Len(cronJobs) < MaxJobs
    /\ cronJobs' = Append(cronJobs, [mirror |-> 1, cursor |-> "none"])
    /\ UNCHANGED <<pc, active, calls, results, logged, runState, runs, faults>>
    /\ UNCHANGED notCoord

\* An invocation of the job goes on: knowledge.Update goes to the next
\* mirror; in the NVD mirror it reads the cursor row, and later writes it.
cronJob ==
    /\ \E j \in 1..Len(cronJobs) :
         /\ cronJobs[j].mirror <= Len(MirrorOrder)
         /\ cronJobs' =
              [cronJobs EXCEPT ![j] =
                 IF @.mirror = NvdIndex /\ @.cursor = "none"
                 THEN [@ EXCEPT !.cursor = "read"]
                 ELSE IF @.mirror = NvdIndex /\ @.cursor = "read"
                 THEN [@ EXCEPT !.cursor = "written"]
                 ELSE [@ EXCEPT !.mirror = @ + 1]]
    /\ UNCHANGED <<pc, active, calls, results, logged, runState, runs, faults>>
    /\ UNCHANGED notCoord

InitCron == CoordIdle /\ RestIdle

NextCron ==
    \/ cronFire
    \/ cronJob

SpecCron == InitCron /\ [][NextCron]_vars

\* C25: at most one invocation of knowledge.Update executes at any time, and
\* at most one is between its read and its write of the cursor row.
C25_OneRunAtATime ==
    /\ Cardinality({j \in 1..Len(cronJobs) :
                       cronJobs[j].mirror <= Len(MirrorOrder)}) <= 1
    /\ Cardinality({j \in 1..Len(cronJobs) : cronJobs[j].cursor = "read"}) <= 1

====
